---- MODULE Spec2Model ----
(***************************************************************************)
(* A model of the travel slot-extraction engine (extract_parameters.py)    *)
(* and of the conversational agent that accumulates its results            *)
(* (travel_agent.py).                                                      *)
(*                                                                         *)
(* An utterance is a sequence of lower-case word tokens (the text split on *)
(* white space).  A regular expression of the source whose atoms are       *)
(* separated by \s+ is a sequence of token sets; Python's `k in text` is   *)
(* containment of the keyword's words in consecutive tokens.  The LLM, the *)
(* calendar-phrase parser, the entity recognizer and the fuzzy matcher are *)
(* external: their answers are nondeterministic inputs.                    *)
(***************************************************************************)
EXTENDS Integers, Sequences, FiniteSets, TLC

VARIABLES
    query,      \* the utterance handed to the extractor under study
    ppc,        \* extract_passenger_count: position in the function
    counts,     \* its locals adults, children, infants before validation
    presult,    \* the record it returned
    ppath,      \* which strategy produced the record
    requests,   \* completion requests issued by this call
    fuzzyOn,    \* the fuzzy matcher scores a misspelt city above its floor
    cpc,        \* extract_cities / extract_travel_info: position
    found,      \* found_cities after deduplication and sorting
    source,     \* the source of the pair / record
    destination, \* the destination of the pair / record
    ipc,        \* extract_travel_info: position after the locations
    info,       \* its result, but for source and destination
    current_booking_info, \* the agent's accumulated record
    turn,       \* the handler that is running, its utterance and its extracted_info
    terminal,   \* the terminal client: its position and its copy of the record
    dpc,        \* extract_dates: the strategy about to run
    dpat,       \* the pattern of the strategy about to run
    dflight,    \* its flight_type argument
    dates,      \* its list of (label, date)
    dresult,    \* the (departure, return) it returned
    calls,      \* concurrent extraction calls: their texts and the results so far
    module_state, \* the module-level gazetteers of extract_parameters
    search,     \* the last execute_flight_search_with_conversation: its outcome
    channel,    \* the Ably channel: requests and responses published, not yet handled
    active_sessions, \* the server's map user_id -> UserSession
    clock       \* the server's time and the time the cleanup task wakes up

paxVars == <<ppc, counts, presult, ppath, requests>>
cityVars == <<fuzzyOn, cpc, found, source, destination>>
infoVars == <<ipc, info>>
convVars == <<current_booking_info, turn, terminal>>
dateVars == <<dpc, dpat, dflight, dates, dresult>>
sysVars == <<calls, module_state, search, channel, active_sessions, clock>>
vars == <<query, ppc, counts, presult, ppath, requests,
          fuzzyOn, cpc, found, source, destination, ipc, info,
          current_booking_info, turn, terminal, dpc, dpat, dflight, dates, dresult,
          calls, module_state, search, channel, active_sessions, clock>>

(***************************************************************************)
(* Generic helpers on token sequences.                                     *)
(***************************************************************************)
Min(S) == CHOOSE x \in S : \A y \in S : x <= y
Max(a, b) == IF a >= b THEN a ELSE b
MinOf(a, b) == IF a <= b THEN a ELSE b

\* pat is a sequence of token sets: the pattern matches q at token i.
MatchAt(q, i, pat) ==
    /\ i >= 1
    /\ i + Len(pat) - 1 <= Len(q)
    /\ \A k \in 1..Len(pat) : q[i + k - 1] \in pat[k]

MatchPositions(q, pat) == {i \in 1..Len(q) : MatchAt(q, i, pat)}

\* some pattern of the set pats matches q somewhere
AnyMatch(q, pats) == \E p \in pats : MatchPositions(q, p) # {}

\* position of the leftmost match of any pattern of pats (0: none)
FirstMatch(q, pats) ==
    LET S == UNION {MatchPositions(q, p) : p \in pats}
    IN IF S = {} THEN 0 ELSE Min(S)

RECURSIVE Concat(_)
Concat(ss) == IF ss = <<>> THEN <<>> ELSE Head(ss) \o Concat(Tail(ss))

(***************************************************************************)
(* Numbers occur in the text as digit strings; int() reads them.           *)
(***************************************************************************)
NumToks == {"0", "1", "2", "3", "5", "10", "20"}

int(t) ==
    CASE t = "0" -> 0 [] t = "1" -> 1 [] t = "2" -> 2 [] t = "3" -> 3
      [] t = "5" -> 5 [] t = "10" -> 10 [] t = "20" -> 20

(***************************************************************************)
(* Passenger counts: validate_passenger_counts and fallback_extraction.    *)
(* The module defines both twice; Python binds the later definitions       *)
(* (lines 883-979), which are the ones modelled.                           *)
(***************************************************************************)
Counts(a, c, i) == [adults |-> a, children |-> c, infants |-> i]

validate_passenger_counts_no_default(adults, children, infants) ==
    Counts(adults, children, infants)

validate_passenger_counts_total_only(adults, children, infants) ==
    Counts(IF adults = 0 /\ children = 0 /\ infants = 0 THEN 1 ELSE adults,
           children, infants)

validate_passenger_counts(adults, children, infants) ==
    LET a1 == IF adults = 0 /\ (children > 0 \/ infants > 0) THEN 1 ELSE adults
        a2 == IF a1 = 0 /\ children = 0 /\ infants = 0 THEN 1 ELSE a1
    IN Counts(a2, children, infants)

\* word classes of the regular expressions (a token that starts with the word)
AdultWords == {"adult", "adults"}
PeopleWords == {"people", "person", "persons"}
SpouseWords == {"wife", "husband", "partner"}
ChildWords == {"children", "child", "kids", "kid"}
InfantWords == {"infant", "infants", "baby", "babies", "newborn"}
YearWords == {"yr", "yrs", "year", "years"}
MonthWords == {"month", "months"}
TeenAges == {"10", "11", "12", "13", "14", "15", "16", "17"}
InfantAges == {"0", "1", "2"}
\* tokens of the vocabulary that contain the characters "one" / the digit 1
ContainsOne == {"one"}
ContainsDigit1 == {"1", "10"}

\* r'with\s+(?:my\s+)?(?:wife|husband|partner)'
SpousePatterns == {<<{"with"}, SpouseWords>>, <<{"with"}, {"my"}, SpouseWords>>}

\* re.findall(pattern)[0] of a one-group pattern: the number that starts the
\* leftmost match; cur unchanged when there is no match
MaxFirst(cur, q, pats) ==
    LET i == FirstMatch(q, pats)
    IN IF i = 0 THEN cur ELSE Max(cur, int(q[i]))

\* int(matches[0]) of the group-less spouse pattern: findall returns the
\* matched text, and int("with my wife") raises ValueError
fallback_raises(q) == AnyMatch(q, SpousePatterns)

pattern_adults(q) ==
    MaxFirst(MaxFirst(0, q, {<<NumToks, AdultWords>>}), q, {<<NumToks, PeopleWords>>})

pattern_children_none(q) == 0

pattern_children(q) ==
    LET c1 == MaxFirst(0, q, {<<NumToks, ChildWords>>})
        c2 == MaxFirst(c1, q, {<<NumToks, NumToks, YearWords \cup MonthWords, {"old"}>>})
    IN MaxFirst(c2, q, {<<NumToks, TeenAges, YearWords>>})

pattern_infants(q) ==
    LET i1 == MaxFirst(0, q, {<<NumToks, InfantWords>>})
        i2 == MaxFirst(i1, q, {<<NumToks, NumToks, MonthWords, {"old"}>>})
    IN MaxFirst(i2, q, {<<NumToks, InfantAges, YearWords>>})

\* 'with wife' in query_lower or 'with husband' in query_lower
with_spouse(q) == AnyMatch(q, {<<{"with"}, {"wife", "husband"}>>})

family_total_none(q) == -1

\* re.search(r'family of (\d+)'): the total, or -1 without a match
family_total(q) ==
    LET i == FirstMatch(q, {<<{"family"}, {"of"}, NumToks>>})
    IN IF i = 0 THEN -1 ELSE int(q[i + 2])

AgePattern == <<NumToks, NumToks, YearWords, {"old"}>>
MonthPattern == <<NumToks, MonthWords, {"old", "baby"}>>

\* the band an age in years falls in (0-2, 3-17, otherwise adults)
age_band(age) ==
    IF 0 <= age /\ age <= 2 THEN "infants"
    ELSE IF 3 <= age /\ age <= 17 THEN "children" ELSE "adults"

\* sum of the counts of the "N A year old" groups whose age falls in band
RECURSIVE age_sum(_, _, _)
age_sum(q, i, band) ==
    IF i > Len(q) THEN 0
    ELSE IF MatchAt(q, i, AgePattern)
         THEN (IF age_band(int(q[i + 1])) = band THEN int(q[i]) ELSE 0)
              + age_sum(q, i + 4, band)
         ELSE age_sum(q, i + 1, band)

\* number of "N months old" matches that add an infant
month_infants(q) ==
    LET one == \E k \in 1..Len(q) : q[k] \in ContainsOne
    IN Cardinality({i \in MatchPositions(q, MonthPattern) :
                       one \/ q[i] \in ContainsDigit1})

\* adults, children, infants of fallback_extraction before its validation
fallback_counts(q) ==
    LET a1 == pattern_adults(q)
        c1 == pattern_children(q)
        i1 == pattern_infants(q)
        a2 == IF with_spouse(q) THEN Max(a1, 2) ELSE a1
        tot == family_total(q)
        fam == tot >= 0 /\ a2 = 0
        a3 == IF fam THEN MinOf(2, tot) ELSE a2
        c3 == IF fam THEN Max(0, tot - a3) ELSE c1
    IN Counts(a3 + age_sum(q, 1, "adults"),
              c3 + age_sum(q, 1, "children"),
              i1 + age_sum(q, 1, "infants") + month_infants(q))

fallback_extraction(q) ==
    LET r == fallback_counts(q)
    IN validate_passenger_counts(r.adults, r.children, r.infants)

(***************************************************************************)
(* extract_passenger_count, step by step.  The client construction, the    *)
(* completion call and the reply are the external LLM's: each outcome is   *)
(* a nondeterministic input of the step that consumes it.                  *)
(***************************************************************************)
MaxReply == 2

NoCounts == Counts(-1, -1, -1)
Returned(r) == [status |-> "ok", adults |-> r.adults, children |-> r.children,
                infants |-> r.infants]
NoResult == [status |-> "none", adults |-> 0, children |-> 0, infants |-> 0]
Raised == [status |-> "raised", adults |-> 0, children |-> 0, infants |-> 0]

\* a value of the parsed reply under one key: an integer, a missing key, or
\* something int() rejects (None, "two")
ReplyVals ==
    [kind : {"int"}, n : -1..MaxReply]
        \cup {[kind |-> "absent", n |-> 0], [kind |-> "bad", n |-> 0]}

\* max(0, int(passenger_data.get(key, 0)))
reply_count(v) == IF v.kind = "absent" THEN 0 ELSE Max(0, v.n)

\* Groq(api_key=...) : the constructor raises, or a client is made
CreateClient ==
    /\ ppc = "client"
    /\ \/ /\ ppc' = "request"
          /\ UNCHANGED <<presult, ppath>>
       \/ /\ ppc' = "done"
          /\ presult' = Returned(Counts(1, 0, 0))
          /\ ppath' = "default"
    /\ UNCHANGED <<query, counts, requests>>
    /\ UNCHANGED <<cityVars, infoVars, convVars, dateVars, sysVars>>

Complete_retrying ==
    /\ ppc = "request"
    /\ requests' = requests + 1
    /\ \/ ppc' = "parse"
       \/ ppc' = IF requests < 1 THEN "request" ELSE "fallback"
    /\ UNCHANGED <<query, counts, presult, ppath>>
    /\ UNCHANGED <<cityVars, infoVars, convVars, dateVars, sysVars>>

\* client.chat.completions.create(...): raises (error, timeout) or answers
Complete ==
    /\ ppc = "request"
    /\ requests' = requests + 1
    /\ \/ ppc' = "parse"
       \/ ppc' = "fallback"
    /\ UNCHANGED <<query, counts, presult, ppath>>
    /\ UNCHANGED <<cityVars, infoVars, convVars, dateVars, sysVars>>

\* extract_and_clean_json and the three int() conversions
ParseReply ==
    /\ ppc = "parse"
    /\ \/ /\ ppc' = "fallback"          \* no JSON object in the reply
          /\ UNCHANGED <<counts, ppath>>
       \/ \E a, c, i \in ReplyVals :
             IF "bad" \in {a.kind, c.kind, i.kind}
             THEN /\ ppc' = "fallback"
                  /\ UNCHANGED <<counts, ppath>>
             ELSE /\ counts' = Counts(reply_count(a), reply_count(c), reply_count(i))
                  /\ ppath' = "llm"
                  /\ ppc' = "validate"
    /\ UNCHANGED <<query, presult, requests>>
    /\ UNCHANGED <<cityVars, infoVars, convVars, dateVars, sysVars>>

\* except Exception: return fallback_extraction(query), up to its validation
Fallback ==
    /\ ppc = "fallback"
    /\ IF fallback_raises(query)
       THEN /\ ppc' = "raised"
            /\ presult' = Raised
            /\ UNCHANGED <<counts, ppath>>
       ELSE /\ counts' = fallback_counts(query)
            /\ ppath' = "fallback"
            /\ ppc' = "validate"
            /\ UNCHANGED presult
    /\ UNCHANGED <<query, requests>>
    /\ UNCHANGED <<cityVars, infoVars, convVars, dateVars, sysVars>>

\* adults, children, infants = validate_passenger_counts(...); return {...}
Validate ==
    /\ ppc = "validate"
    /\ presult' = Returned(validate_passenger_counts(counts.adults, counts.children,
                                                     counts.infants))
    /\ ppc' = "done"
    /\ UNCHANGED <<query, counts, ppath, requests>>
    /\ UNCHANGED <<cityVars, infoVars, convVars, dateVars, sysVars>>

(***************************************************************************)
(* Gazetteer (the part of city_to_iata the utterances of the model use).   *)
(***************************************************************************)
None == "None"

city_to_iata ==
    [c \in {"lahore", "karachi", "islamabad", "rawalpindi", "multan"} |->
        CASE c = "lahore" -> "LHE"
          [] c = "karachi" -> "KHI"
          [] c = "islamabad" -> "ISB"
          [] c = "rawalpindi" -> "ISB"
          [] c = "multan" -> "MUX"]

city_names == DOMAIN city_to_iata
iata_codes == {city_to_iata[c] : c \in city_names}

\* sorted(city_names, key=len, reverse=True); the sort is stable, so names of
\* one length keep the order of the dictionary
sorted_cities == <<"rawalpindi", "islamabad", "karachi", "lahore", "multan">>

\* text.upper() of a three-letter token that is a location code
upper_code(t) ==
    CASE t = "lhe" -> "LHE" [] t = "khi" -> "KHI" [] t = "isb" -> "ISB"
      [] t = "mux" -> "MUX" [] OTHER -> None

\* the city name a token contains as a substring (itself for a city name;
\* "lahores" contains "lahore" without being the word)
city_in(t) == IF t = "lahores" THEN "lahore" ELSE t

\* a misspelt city the fuzzy matcher may score above the floor, and its match
fuzzy_city(t) == IF t = "lahor" THEN "lahore" ELSE None

Hit(code, pos) == [code |-> code, pos |-> pos]

\* re.finditer(r'\b[A-Z]{3}\b', text.upper()) filtered by iata_codes
RECURSIVE iata_matches(_, _)
iata_matches(q, i) ==
    IF i > Len(q) THEN <<>>
    ELSE (IF upper_code(q[i]) \in iata_codes THEN <<Hit(upper_code(q[i]), i)>> ELSE <<>>)
         \o iata_matches(q, i + 1)

\* the loop over sorted_cities: text.find gives the first occurrence, which
\* counts only when it is a whole word
RECURSIVE city_matches(_, _)
city_matches(q, cs) ==
    IF cs = <<>> THEN <<>>
    ELSE LET city == Head(cs)
             P == {i \in 1..Len(q) : city_in(q[i]) = city}
         IN (IF P # {} /\ q[Min(P)] = city
             THEN <<Hit(city_to_iata[city], Min(P))>> ELSE <<>>)
            \o city_matches(q, Tail(cs))

extract_cities_multiword(q) == iata_matches(q, 1) \o city_matches(q, sorted_cities)

\* the entity and token fallbacks: what the fuzzy matcher accepts, in text order
RECURSIVE fuzzy_matches(_, _)
fuzzy_matches(q, i) ==
    IF i > Len(q) THEN <<>>
    ELSE (IF fuzzy_city(q[i]) \in city_names
          THEN <<Hit(city_to_iata[fuzzy_city(q[i])], i)>> ELSE <<>>)
         \o fuzzy_matches(q, i + 1)

\* keep the first hit of every code
RECURSIVE unique_cities(_, _)
unique_cities(hits, seen) ==
    IF hits = <<>> THEN <<>>
    ELSE IF Head(hits).code \in seen THEN unique_cities(Tail(hits), seen)
         ELSE <<Head(hits)>> \o unique_cities(Tail(hits), seen \cup {Head(hits).code})

\* sorted(unique_cities, key=lambda x: x[2])
RECURSIVE sort_by_pos(_)
sort_by_pos(H) ==
    IF H = {} THEN <<>>
    ELSE LET h == CHOOSE x \in H : \A y \in H : x.pos <= y.pos
         IN <<h>> \o sort_by_pos(H \ {h})

Range(f) == {f[i] : i \in DOMAIN f}

found_cities(q, fz) ==
    LET m == extract_cities_multiword(q)
        all == IF m # <<>> THEN m ELSE IF fz THEN fuzzy_matches(q, 1) ELSE <<>>
    IN sort_by_pos(Range(unique_cities(all, {})))

from_indicators == {"from", "leaving", "departing", "starting"}
\* "going to" is in the list too, but no single token equals it
to_indicators == {"to", "towards", "arriving", "destination"}
\* tokens in which `word in query_lower` finds one of to_indicators + ["going",
\* "want to go"] as a substring
to_substring_tokens == {"to", "towards", "arriving", "destination", "going", "today"}

\* first city after the first cue token (the loop sets the slot once)
first_after(fc, q, cues) ==
    LET T == {i \in 1..Len(q) : q[i] \in cues}
        A == IF T = {} THEN {} ELSE {k \in 1..Len(fc) : fc[k].pos > Min(T)}
    IN IF A = {} THEN None ELSE fc[Min(A)].code

Pair(s, d) == [source |-> s, destination |-> d]

\* the loop over doc looking for directional indicators
cue_assign(fc, q) == Pair(first_after(fc, q, from_indicators),
                          first_after(fc, q, to_indicators))

position_fallback_reversed(p, fc, q) ==
    IF p.source = None /\ p.destination = None /\ Len(fc) > 1
    THEN Pair(fc[2].code, fc[1].code)
    ELSE p

\* "if not source and not destination and found_cities"
position_fallback(p, fc, q) ==
    IF p.source = None /\ p.destination = None /\ fc # <<>>
    THEN IF Len(fc) = 1
         THEN IF \E i \in 1..Len(q) : q[i] \in to_substring_tokens
              THEN Pair(None, fc[1].code)
              ELSE Pair(fc[1].code, None)
         ELSE Pair(fc[1].code, fc[2].code)
    ELSE p

first_other(fc, code) ==
    LET A == {k \in 1..Len(fc) : fc[k].code # code}
    IN IF A = {} THEN None ELSE fc[Min(A)].code

\* "cities were assigned to wrong slots": fill the empty slot
fill_in(p, fc) ==
    IF p.source # None /\ p.destination = None /\ Len(fc) > 1
    THEN Pair(p.source, first_other(fc, p.source))
    ELSE IF p.destination # None /\ p.source = None /\ Len(fc) > 1
         THEN Pair(first_other(fc, p.destination), p.destination)
         ELSE p

tie_break_skipped(p, fc) == p

\* "Ensure source != destination"
tie_break(p, fc) ==
    IF p.source = p.destination
    THEN IF Len(fc) > 1 THEN Pair(fc[1].code, fc[2].code) ELSE Pair(p.source, None)
    ELSE p

extract_cities(q, fz) ==
    LET fc == found_cities(q, fz)
    IN tie_break(fill_in(position_fallback(cue_assign(fc, q), fc, q), fc), fc)

\* extract_travel_info: "Ensure source and destination are different"
info_locations(p) ==
    IF p.source # None /\ p.destination # None /\ p.source = p.destination
    THEN Pair(p.source, None) ELSE p

\* source, destination = extract_cities(query)
ExtractCities ==
    /\ cpc = "start"
    /\ found' = found_cities(query, fuzzyOn)
    /\ LET p == extract_cities(query, fuzzyOn)
       IN source' = p.source /\ destination' = p.destination
    /\ cpc' = "cities"
    /\ UNCHANGED <<query, fuzzyOn>>
    /\ UNCHANGED <<paxVars, infoVars, convVars, dateVars, sysVars>>

\* result["source"], result["destination"] of extract_travel_info
AssembleLocations ==
    /\ cpc = "cities"
    /\ LET p == info_locations(Pair(source, destination))
       IN source' = p.source /\ destination' = p.destination
    /\ cpc' = "info"
    /\ UNCHANGED <<query, fuzzyOn, found>>
    /\ UNCHANGED <<paxVars, infoVars, convVars, dateVars, sysVars>>

(***************************************************************************)
(* Text as tokens.  An utterance is its lower-cased words separated by     *)
(* single spaces; `k in text` and the regular expressions of the           *)
(* extractors are evaluated on the tokens, with the substring relation     *)
(* between the tokens and the searched words tabulated below.              *)
(***************************************************************************)
Vocab ==
    {"1", "15th", "2", "2026-12-01", "2026-12-10", "a", "actually", "adult",
     "adults", "and", "back", "between", "book", "business", "bussiness",
     "champagne", "change", "child", "children", "class", "come", "coming",
     "departing", "destination", "economy", "exec", "expensive", "f", "first",
     "flight", "fly", "friday", "from", "go", "i", "in", "infant", "infants",
     "isb", "islamabad", "it", "karachi", "khi", "lahore", "lhe", "make",
     "meeting", "multan", "mux", "my", "now", "on", "one", "please", "plus",
     "premium", "professional", "rawalpindi", "return", "returning", "round",
     "seat", "the", "then", "there", "ticket", "to", "today", "tomorrow",
     "travel", "trip", "trip.", "upgrade", "want", "way", "way.", "which",
     "wife", "with", "work"}

\* the searched words a token contains (other than itself)
substrings(t) ==
    CASE t = "business" -> {"bus"}
      [] t = "bussiness" -> {"bus"}
      [] t = "economy" -> {"eco"}
      [] t = "premium" -> {"prem"}
      [] t = "returning" -> {"return"}
      [] t = "today" -> {"to"}
      [] t = "tomorrow" -> {"to"}
      [] t = "trip." -> {"trip"}
      [] t = "way." -> {"way"}
      [] OTHER -> {}

\* the words a token starts with (other than itself)
prefixes(t) ==
    CASE t = "business" -> {"bus"}
      [] t = "bussiness" -> {"bus"}
      [] t = "economy" -> {"eco"}
      [] t = "infant" -> {"in"}
      [] t = "infants" -> {"in"}
      [] t = "one" -> {"on"}
      [] t = "premium" -> {"prem"}
      [] t = "returning" -> {"return"}
      [] t = "today" -> {"to"}
      [] t = "tomorrow" -> {"to"}
      [] t = "trip." -> {"trip"}
      [] t = "way." -> {"way"}
      [] t = "1st" -> {"1"}
      [] t = "executive" -> {"exec"}
      [] OTHER -> {}

\* the searched words a token ends with (other than itself)
suffixes(t) ==
    CASE t = "actually" -> {"y"}
      [] t = "destination" -> {"on"}
      [] t = "economy" -> {"y"}
      [] t = "exec" -> {"c"}
      [] t = "fly" -> {"y"}
      [] t = "friday" -> {"y"}
      [] t = "my" -> {"y"}
      [] t = "now" -> {"w"}
      [] t = "today" -> {"y"}
      [] t = "tomorrow" -> {"w"}
      [] t = "way" -> {"y"}
      [] OTHER -> {}

\* tokens that are not one \w+ run
NotPureWord ==
    {"2026-12-01", "2026-12-10", "trip.", "way."}

\* tokens whose last character is not a word character
NotWordEnd ==
    {"trip.", "way."}

\* tokens ending in \d+(?:st|nd|rd|th)?
NumberEnd ==
    {"1", "15th", "2", "2026-12-01", "2026-12-10"}

\* tokens starting with \d+(?:st|nd|rd|th)
OrdinalStart ==
    {"15th"}

\* tokens of one character
SingleChar ==
    {"1", "2", "a", "f", "i"}

\* tokens starting with .?(?:\d|today|tomorrow)
BetweenTail ==
    {"1", "15th", "2", "2026-12-01", "2026-12-10", "today", "tomorrow"}

\* tokens longer than 3 characters that contain a class fragment
class_related ==
    {"business", "bussiness", "class", "economy", "first", "premium"}

Contains(t, w) == w = t \/ w \in substrings(t)
StartsWith(t, w) == w = t \/ w \in prefixes(t)
EndsWith(t, w) == w = t \/ w \in suffixes(t)
StartsWord(t) == TRUE
EndsWord(t) == t \notin NotWordEnd
PureWord(t) == t \notin NotPureWord

\* `kw in text` at token i, for a phrase kw of one or more words
KwAt(q, i, kw) ==
    /\ i + Len(kw) - 1 <= Len(q)
    /\ IF Len(kw) = 1 THEN Contains(q[i], kw[1])
       ELSE /\ EndsWith(q[i], kw[1])
            /\ StartsWith(q[i + Len(kw) - 1], kw[Len(kw)])
            /\ \A j \in 2..(Len(kw) - 1) : q[i + j - 1] = kw[j]

HasKw(q, kw) == \E i \in 1..Len(q) : KwAt(q, i, kw)

(***************************************************************************)
(* extract_flight_type                                                     *)
(***************************************************************************)
strong_return_keywords_single ==
    {<<"return">>, <<"round-trip">>, <<"roundtrip">>, <<"two-way">>}

strong_return_keywords ==
    {<<"return">>, <<"round", "trip">>, <<"round-trip">>, <<"roundtrip">>,
     <<"two", "way">>, <<"two-way">>, <<"return", "ticket">>,
     <<"return", "flight">>, <<"both", "ways">>}

\* r'(?:and\s+)?(?:then\s+)?back\s+to\s+\w+'
back_to_word(q) ==
    \E i \in 1..Len(q) : /\ i + 2 <= Len(q)
                         /\ EndsWith(q[i], "back")
                         /\ q[i + 1] = "to"
                         /\ StartsWord(q[i + 2])

\* r'(?:and\s+)?(?:then\s+)?(?:come\s+)?back\s+(?:to\s+)?\w+'
back_word(q) ==
    \E i \in 1..Len(q) : i + 1 <= Len(q) /\ EndsWith(q[i], "back") /\ StartsWord(q[i + 1])

\* r'between\s+.?\s+and\s+.?(?:\d|today|tomorrow)'
between_short(q) ==
    \E i \in 1..Len(q) : /\ i + 3 <= Len(q)
                         /\ EndsWith(q[i], "between")
                         /\ q[i + 1] \in SingleChar
                         /\ q[i + 2] = "and"
                         /\ q[i + 3] \in BetweenTail

\* r'(?:from\s+)?\w+\s+to\s+\w+.*?(?:and\s+)?(?:then\s+)?(?:back|return)'; a
\* later "return" is a strong keyword already
route_then_back(q) ==
    \E i \in 1..Len(q) : /\ i + 2 <= Len(q)
                         /\ EndsWord(q[i])
                         /\ q[i + 1] = "to"
                         /\ StartsWord(q[i + 2])
                         /\ \E j \in (i + 3)..Len(q) : Contains(q[j], "back")

\* r'(?:go|travel|fly)\s+.*?(?:and\s+)?(?:then\s+)?(?:come\s+)?back'
go_then_back(q) ==
    \E i \in 1..Len(q) : /\ \E w \in {"go", "travel", "fly"} : EndsWith(q[i], w)
                         /\ \E j \in (i + 1)..Len(q) : Contains(q[j], "back")

\* the list return_patterns; the fourth and the seventh pattern match only
\* where the first or the fifth does
return_patterns(q) ==
    back_to_word(q) \/ back_word(q) \/ between_short(q) \/ route_then_back(q)
        \/ go_then_back(q)

\* "between" in query_lower and r'between\s+\w+.*?and\s+\w+'
between_pattern(q) ==
    \E i \in 1..Len(q) : /\ i + 1 <= Len(q)
                         /\ EndsWith(q[i], "between")
                         /\ StartsWord(q[i + 1])
                         /\ \E j \in (i + 1)..(Len(q) - 1) :
                                /\ EndsWith(q[j], "and")
                                /\ (j = i + 1 => q[j] # "and")
                                /\ StartsWord(q[j + 1])

strong_temporal_indicators ==
    {<<"and", "back">>, <<"then", "back">>, <<"return", "on">>,
     <<"coming", "back", "on">>, <<"back", "on">>,
     <<"go", "and", "come", "back">>, <<"there", "and", "back">>}

\* r'(?:from\s+)?\d+(?:st|nd|rd|th)?\s+.*?(?:to|and|until)\s+\d+(?:st|nd|rd|th)';
\* the second pattern needs "back on" or "return on" and is covered earlier
date_range_patterns(q) ==
    \E i \in 1..Len(q) :
        /\ q[i] \in NumberEnd
        /\ \E j \in (i + 1)..(Len(q) - 1) :
               /\ \E w \in {"to", "and", "until"} : EndsWith(q[j], w)
               /\ q[j + 1] \in OrdinalStart

\* query_lower.count(city) > 1 for a known city
city_repeated(q) ==
    \E c \in city_names : Cardinality({i \in 1..Len(q) : city_in(q[i]) = c}) > 1

strong_connectors ==
    {<<"and", "then", "to">>, <<"and", "back", "to">>, <<"then", "to">>,
     <<"then", "back">>}

\* two known cities joined by a strong connector
cities_connected(q) ==
    /\ Cardinality({c \in city_names : \E i \in 1..Len(q) : city_in(q[i]) = c}) >= 2
    /\ \E k \in strong_connectors : HasKw(q, k)

\* r'\bthere\b.*\bback\b'; the checks for go...back and fly...return are
\* covered by go_then_back and by the strong keywords
final_return_checks(q) ==
    \E i \in 1..Len(q) : q[i] = "there" /\ \E j \in (i + 1)..Len(q) : q[j] = "back"

extract_flight_type(q) ==
    IF \E k \in strong_return_keywords : HasKw(q, k) THEN "return"
    ELSE IF return_patterns(q) THEN "return"
    ELSE IF between_pattern(q) THEN "return"
    ELSE IF \E k \in strong_temporal_indicators : HasKw(q, k) THEN "return"
    ELSE IF date_range_patterns(q) THEN "return"
    ELSE IF city_repeated(q) \/ cities_connected(q) THEN "return"
    ELSE IF final_return_checks(q) THEN "return"
    ELSE "one_way"

(***************************************************************************)
(* extract_flight_class                                                    *)
(***************************************************************************)
FlightClasses == {"first", "business", "premium_economy", "economy"}

\* the order of the keys of class_mappings
class_order == <<"first", "business", "premium_economy", "economy">>

\* the (keyword, class) list after the sort by length, longest first; the sort
\* is stable, so keywords of one length keep the order of class_mappings
all_keywords ==
    <<[kw |-> <<"preferred", "seating">>, class |-> "premium_economy"],
      [kw |-> <<"executive", "class">>, class |-> "business"],
      [kw |-> <<"premium", "economy">>, class |-> "premium_economy"],
      [kw |-> <<"premium-economy">>, class |-> "premium_economy"],
      [kw |-> <<"premium", "seating">>, class |-> "premium_economy"],
      [kw |-> <<"business", "class">>, class |-> "business"],
      [kw |-> <<"business-class">>, class |-> "business"],
      [kw |-> <<"premiumeconomy">>, class |-> "premium_economy"],
      [kw |-> <<"businessclass">>, class |-> "business"],
      [kw |-> <<"extra", "comfort">>, class |-> "premium_economy"],
      [kw |-> <<"economy", "class">>, class |-> "economy"],
      [kw |-> <<"economy-class">>, class |-> "economy"],
      [kw |-> <<"basic", "economy">>, class |-> "economy"],
      [kw |-> <<"comfort", "plus">>, class |-> "premium_economy"],
      [kw |-> <<"economy", "plus">>, class |-> "premium_economy"],
      [kw |-> <<"economyclass">>, class |-> "economy"],
      [kw |-> <<"first", "class">>, class |-> "first"],
      [kw |-> <<"first-class">>, class |-> "first"],
      [kw |-> <<"premium", "eco">>, class |-> "premium_economy"],
      [kw |-> <<"firstclass">>, class |-> "first"],
      [kw |-> <<"club", "class">>, class |-> "business"],
      [kw |-> <<"main", "cabin">>, class |-> "economy"],
      [kw |-> <<"1st", "class">>, class |-> "first"],
      [kw |-> <<"biz", "class">>, class |-> "business"],
      [kw |-> <<"executive">>, class |-> "business"],
      [kw |-> <<"eco", "class">>, class |-> "economy"],
      [kw |-> <<"business">>, class |-> "business"],
      [kw |-> <<"economy+">>, class |-> "premium_economy"],
      [kw |-> <<"standard">>, class |-> "economy"],
      [kw |-> <<"f", "class">>, class |-> "first"],
      [kw |-> <<"c", "class">>, class |-> "business"],
      [kw |-> <<"j", "class">>, class |-> "business"],
      [kw |-> <<"premium">>, class |-> "premium_economy"],
      [kw |-> <<"w", "class">>, class |-> "premium_economy"],
      [kw |-> <<"economy">>, class |-> "economy"],
      [kw |-> <<"y", "class">>, class |-> "economy"],
      [kw |-> <<"regular">>, class |-> "economy"],
      [kw |-> <<"first">>, class |-> "first"],
      [kw |-> <<"coach">>, class |-> "economy"]>>

\* len(t) for the words of the keywords
strlen(t) ==
    CASE t = "1st" -> 3
      [] t = "basic" -> 5
      [] t = "biz" -> 3
      [] t = "business" -> 8
      [] t = "business-class" -> 14
      [] t = "businessclass" -> 13
      [] t = "c" -> 1
      [] t = "cabin" -> 5
      [] t = "class" -> 5
      [] t = "club" -> 4
      [] t = "coach" -> 5
      [] t = "comfort" -> 7
      [] t = "eco" -> 3
      [] t = "economy" -> 7
      [] t = "economy+" -> 8
      [] t = "economy-class" -> 13
      [] t = "economyclass" -> 12
      [] t = "executive" -> 9
      [] t = "extra" -> 5
      [] t = "f" -> 1
      [] t = "first" -> 5
      [] t = "first-class" -> 11
      [] t = "firstclass" -> 10
      [] t = "j" -> 1
      [] t = "main" -> 4
      [] t = "plus" -> 4
      [] t = "preferred" -> 9
      [] t = "premium" -> 7
      [] t = "premium-economy" -> 15
      [] t = "premiumeconomy" -> 14
      [] t = "regular" -> 7
      [] t = "seating" -> 7
      [] t = "standard" -> 8
      [] t = "w" -> 1
      [] t = "y" -> 1

\* len(x[0]), the key of the sort: the words and the spaces between them
RECURSIVE kw_len(_)
kw_len(kw) ==
    IF kw = <<>> THEN 0
    ELSE strlen(Head(kw)) + (IF Len(kw) > 1 THEN 1 ELSE 0) + kw_len(Tail(kw))

class_keywords(c) ==
    {all_keywords[k].kw : k \in {n \in 1..Len(all_keywords) : all_keywords[n].class = c}}

\* Strategy 1: the class of the first keyword of the sorted list found in the
\* text
RECURSIVE first_keyword(_, _)
first_keyword(q, k) ==
    IF k > Len(all_keywords) THEN None
    ELSE IF HasKw(q, all_keywords[k].kw) THEN all_keywords[k].class
    ELSE first_keyword(q, k + 1)

\* the keywords tried shortest first
RECURSIVE last_keyword(_, _)
last_keyword(q, k) ==
    IF k < 1 THEN None
    ELSE IF HasKw(q, all_keywords[k].kw) THEN all_keywords[k].class
    ELSE last_keyword(q, k - 1)

direct_keyword_shortest(q) == last_keyword(q, Len(all_keywords))

direct_keyword(q) == first_keyword(q, 1)

class_indicators == {"class", "cabin", "seat", "seating", "service"}

\* Strategy 2: keywords within two tokens of a class indicator
context_window(q) ==
    LET W(i) == SubSeq(q, Max(1, i - 2), MinOf(Len(q), i + 2))
        M == {i \in 1..Len(q) : q[i] \in class_indicators /\ direct_keyword(W(i)) # None}
    IN IF M = {} THEN None ELSE direct_keyword(W(Min(M)))

luxury_indicators(c) ==
    CASE c = "business" -> {<<"professional">>, <<"corporate">>, <<"executive">>,
                            <<"business", "trip">>, <<"work", "travel">>}
      [] c = "first" -> {<<"luxury">>, <<"luxurious">>, <<"premium", "service">>,
                         <<"finest">>, <<"exclusive">>, <<"vip">>}
      [] c = "premium_economy" -> {<<"comfortable">>, <<"extra", "space">>,
                                   <<"more", "room">>, <<"upgrade">>,
                                   <<"better", "seat">>}

\* the first class of order one of whose phrases is in the text
first_class_with(q, order, phrases) ==
    LET M == {k \in 1..Len(order) : \E p \in phrases[order[k]] : HasKw(q, p)}
    IN IF M = {} THEN None ELSE order[Min(M)]

luxury_class(q) ==
    first_class_with(q, <<"business", "first", "premium_economy">>,
                     [c \in {"business", "first", "premium_economy"} |-> luxury_indicators(c)])

\* Strategy 3.  A pattern is: an optional leading word (pre), an optional "in",
\* one or two captured words, "class", and an optional following word (post).
NoMatch == [len |-> 0, e |-> <<>>]

\* n captured words from token j, then "class", then one of post
Captures(q, j, n, post) ==
    /\ j + n <= Len(q)
    /\ \A k \in 0..(n - 1) : PureWord(q[j + k])
    /\ q[j + n] = "class"
    /\ (post # {} => j + n + 1 <= Len(q) /\ q[j + n + 1] \in post)

\* the match that starts at token i: the optional "in" and the second captured
\* word are greedy
pattern_match(q, i, p) ==
    LET j0 == IF p.pre = {} THEN i ELSE i + 1
        tail == IF p.post = {} THEN 1 ELSE 2
        try(j, n) == [len |-> (j - i) + n + tail, e |-> SubSeq(q, j, j + n - 1)]
        skip_in == p.opt_in /\ j0 <= Len(q) /\ q[j0] = "in"
    IN IF p.pre # {} /\ q[i] \notin p.pre THEN NoMatch
       ELSE IF skip_in /\ Captures(q, j0 + 1, 2, p.post) THEN try(j0 + 1, 2)
       ELSE IF skip_in /\ Captures(q, j0 + 1, 1, p.post) THEN try(j0 + 1, 1)
       ELSE IF Captures(q, j0, 2, p.post) THEN try(j0, 2)
       ELSE IF Captures(q, j0, 1, p.post) THEN try(j0, 1)
       ELSE NoMatch

\* re.findall: the captured words of the matches, left to right, without overlap
RECURSIVE findall(_, _, _)
findall(q, i, p) ==
    IF i > Len(q) THEN <<>>
    ELSE LET m == pattern_match(q, i, p)
         IN IF m.len = 0 THEN findall(q, i + 1, p)
            ELSE <<m.e>> \o findall(q, i + m.len, p)

\* the fifth pattern of the source captures a class keyword itself and cannot
\* match where Strategy 1 found nothing
class_patterns ==
    <<[pre |-> {"in", "book", "reserve", "want", "need", "prefer"}, opt_in |-> FALSE,
       post |-> {}],
      [pre |-> {}, opt_in |-> FALSE, post |-> {"seat", "ticket", "flight", "fare"}],
      [pre |-> {"fly", "travel"}, opt_in |-> FALSE, post |-> {}],
      [pre |-> {}, opt_in |-> FALSE, post |-> {"flight", "ticket", "booking"}],
      [pre |-> {"seat", "ticket", "flight", "cabin"}, opt_in |-> TRUE, post |-> {}]>>

\* keyword.startswith(extracted_class), which holds for the keyword itself too
keyword_starts_with(kw, e) ==
    /\ Len(kw) >= Len(e)
    /\ \A k \in 1..(Len(e) - 1) : kw[k] = e[k]
    /\ StartsWith(kw[Len(e)], e[Len(e)])

mapped_class(e) ==
    LET M == {k \in 1..Len(class_order) :
                 \E kw \in class_keywords(class_order[k]) : keyword_starts_with(kw, e)}
    IN IF M = {} THEN None ELSE class_order[Min(M)]

\* the first captured phrase, over the patterns in order, that maps to a class
pattern_class(q) ==
    LET es == Concat([k \in 1..Len(class_patterns) |-> findall(q, 1, class_patterns[k])])
        M == {k \in 1..Len(es) : mapped_class(es[k]) # None}
    IN IF M = {} THEN None ELSE mapped_class(es[Min(M)])

\* Strategy 4: the fuzzy matcher is asked only when some token is class
\* related; fz is the class of its best match above the score floor, or None
fuzzy_class(q, fz) ==
    IF \E i \in 1..Len(q) : q[i] \in class_related THEN fz ELSE None

context_clues(c) ==
    CASE c = "first" -> {<<"expensive">>, <<"costly">>, <<"luxury">>,
                         <<"premium", "service">>, <<"champagne">>, <<"lie", "flat">>}
      [] c = "business" -> {<<"work">>, <<"corporate">>, <<"meeting">>,
                            <<"conference">>, <<"professional">>,
                            <<"lounge", "access">>}
      [] c = "premium_economy" -> {<<"upgrade">>, <<"extra", "legroom">>,
                                   <<"more", "space">>, <<"comfortable">>,
                                   <<"priority", "boarding">>}

flight_context == {"flight", "fly", "travel", "ticket", "book", "reserve"}

\* Strategy 5: a context clue counts only beside a flight word
context_class(q) ==
    IF \E i \in 1..Len(q) : \E w \in flight_context : Contains(q[i], w)
    THEN first_class_with(q, <<"first", "business", "premium_economy">>,
                          [c \in {"business", "first", "premium_economy"} |-> context_clues(c)])
    ELSE None

abbreviation_map(l) ==
    CASE l = "f" -> "first" [] l = "j" -> "business" [] l = "c" -> "business"
      [] l = "w" -> "premium_economy" [] l = "y" -> "economy"

\* Strategy 6: r'\b([fjcwy])\s+class\b', matches[0]
abbreviation_class(q) ==
    LET M == {i \in 1..(Len(q) - 1) : q[i] \in {"f", "j", "c", "w", "y"} /\ q[i + 1] = "class"}
    IN IF M = {} THEN None ELSE abbreviation_map(q[Min(M)])

\* Strategies 1 to 3, the first that gives a class deciding
before_fuzzy(q) ==
    LET s1 == direct_keyword(q)
        s2 == context_window(q)
        s2b == luxury_class(q)
    IN IF s1 # None THEN s1
       ELSE IF s2 # None THEN s2
       ELSE IF s2b # None THEN s2b
       ELSE pattern_class(q)

\* Strategies 5 and 6, and the default: "economy"
after_fuzzy(q) ==
    LET s5 == context_class(q)
        s6 == abbreviation_class(q)
    IN IF s5 # None THEN s5
       ELSE IF s6 # None THEN s6
       ELSE "economy"

extract_flight_class(q, fz) ==
    LET early == before_fuzzy(q)
    IN IF early # None THEN early
       ELSE IF fuzzy_class(q, fz) # None THEN fuzzy_class(q, fz)
       ELSE after_fuzzy(q)

(***************************************************************************)
(* extract_travel_info.  The calendar-phrase reading of extract_dates and  *)
(* the passenger reply are inputs of the step that consumes them.          *)
(***************************************************************************)
Dates == {"2026-12-01", "2026-12-10"}

date_outcomes_unkeyed(ft) ==
    {Pair(d, r) : d \in Dates \cup {None}, r \in Dates \cup {None}}

\* what extract_dates can hand to extract_travel_info: one date or nothing
\* for a one-way trip, a (departure, return) pair for a return trip
date_outcomes(ft) ==
    IF ft = "return"
    THEN {Pair(d, r) : d \in Dates \cup {None}, r \in Dates \cup {None}}
    ELSE {Pair(d, None) : d \in Dates \cup {None}}

\* the class the cascade can end with, over the outcomes of the fuzzy matcher
class_outcomes(q) ==
    LET early == before_fuzzy(q)
    IN IF early # None THEN {early}
       ELSE {extract_flight_class(q, fz) : fz \in FlightClasses \cup {None}}

\* the fuzzy city stage runs only when the gazetteer scan found nothing
city_outcomes(q) ==
    {info_locations(extract_cities(q, fz)) :
        fz \in {f \in BOOLEAN : f => /\ extract_cities_multiword(q) = <<>>
                                     /\ \E i \in 1..Len(q) : fuzzy_city(q[i]) # None}}

default_passengers_none == Counts(0, 0, 0)

\* result["passengers"] = {"adults": 1, "children": 0, "infants": 0}
default_passengers == Counts(1, 0, 0)

NoInfo ==
    [flight_type |-> None, flight_class |-> None, departure_date |-> None,
     return_date |-> None, passengers |-> NoCounts]

\* result["flight_type"] = extract_flight_type(query)
InfoFlightType ==
    /\ ipc = "type"
    /\ cpc = "info"
    /\ info' = [info EXCEPT !.flight_type = extract_flight_type(query)]
    /\ ipc' = "class"
    /\ UNCHANGED <<query, paxVars, cityVars, convVars, dateVars, sysVars>>

\* result["flight_class"] = extract_flight_class(query)
InfoFlightClass ==
    /\ ipc = "class"
    /\ \E c \in class_outcomes(query) : info' = [info EXCEPT !.flight_class = c]
    /\ ipc' = "dates"
    /\ UNCHANGED <<query, paxVars, cityVars, convVars, dateVars, sysVars>>

\* the dates by flight type; then extract_passenger_count(query) is entered
InfoDates ==
    /\ ipc = "dates"
    /\ \E d \in date_outcomes(info.flight_type) :
           info' = [info EXCEPT !.departure_date = d.source,
                                !.return_date = d.destination]
    /\ ipc' = "passengers"
    /\ ppc' = "client"
    /\ UNCHANGED <<query, counts, presult, ppath, requests, cityVars, convVars, dateVars, sysVars>>

\* result["passengers"]: the extractor's record, or the default when it raised
InfoPassengers ==
    /\ ipc = "passengers"
    /\ ppc \in {"done", "raised"}
    /\ info' = [info EXCEPT !.passengers =
                    IF presult.status = "ok"
                    THEN Counts(presult.adults, presult.children, presult.infants)
                    ELSE default_passengers]
    /\ ipc' = "done"
    /\ UNCHANGED <<query, paxVars, cityVars, convVars, dateVars, sysVars>>

\* the records extract_passenger_count can give extract_travel_info for a text
LlmAnswers == {validate_passenger_counts(a, c, i) : a, c, i \in 0..MaxReply}

passenger_outcomes(q, answers) ==
    {Counts(1, 0, 0)} \cup answers
        \cup (IF fallback_raises(q) THEN {default_passengers} ELSE {fallback_extraction(q)})

\* every record extract_travel_info can return for a text
travel_infos(q, answers) ==
    LET ft == extract_flight_type(q)
    IN {[source |-> p.source, destination |-> p.destination, flight_type |-> ft,
         flight_class |-> c, departure_date |-> d.source,
         return_date |-> d.destination, passengers |-> n] :
           p \in city_outcomes(q), c \in class_outcomes(q), d \in date_outcomes(ft),
           n \in passenger_outcomes(q, answers)}

(***************************************************************************)
(* ConversationalTravelAgent: the accumulated record and its handlers.     *)
(***************************************************************************)
\* current_booking_info = {}: no key is present (total_passengers, the sum of
\* the passengers entry, is not kept apart)
EmptyBooking ==
    [source |-> None, destination |-> None, flight_type |-> None,
     flight_class |-> None, departure_date |-> None, return_date |-> None,
     passengers |-> NoCounts]

\* a location code as it reads in lower-cased text
lower_code(c) ==
    CASE c = "LHE" -> "lhe" [] c = "KHI" -> "khi" [] c = "ISB" -> "isb"
      [] c = "MUX" -> "mux"

\* str(n)
str(n) == CASE n = 1 -> "1" [] n = 2 -> "2" [] n = 3 -> "3"

passenger_part(n, one, many) ==
    IF n <= 0 THEN <<>> ELSE IF n = 1 THEN <<<<"1", one>>>> ELSE <<<<str(n), many>>>>

\* ' and '.join(parts)
RECURSIVE join_and(_)
join_and(parts) ==
    IF parts = <<>> THEN <<>>
    ELSE IF Len(parts) = 1 THEN parts[1]
    ELSE parts[1] \o <<"and">> \o join_and(Tail(parts))

\* base_context + ".": the full stop joins the last word
with_period(t) == CASE t = "trip" -> "trip." [] t = "way" -> "way."

create_contextual_query(b, user_input) ==
    IF b = EmptyBooking THEN user_input
    ELSE LET route == IF b.source # None /\ b.destination # None
                      THEN <<"travel", "from", lower_code(b.source), "to",
                             lower_code(b.destination)>>
                      ELSE IF b.source # None
                      THEN <<"travel", "from", lower_code(b.source)>>
                      ELSE IF b.destination # None
                      THEN <<"go", "to", lower_code(b.destination)>>
                      ELSE <<>>
             p == IF b.passengers = NoCounts THEN default_passengers ELSE b.passengers
             parts == passenger_part(p.adults, "adult", "adults")
                          \o passenger_part(p.children, "child", "children")
                          \o passenger_part(p.infants, "infant", "infants")
             pax == IF parts = <<>> THEN <<>> ELSE <<"with">> \o join_and(parts)
             dep == IF b.departure_date # None
                    THEN <<"departing", "on", b.departure_date>> ELSE <<>>
             ret == IF b.return_date # None
                    THEN <<"returning", "on", b.return_date>> ELSE <<>>
             cls == IF b.flight_class = None THEN <<>>
                    ELSE IF b.flight_class = "premium_economy"
                    THEN <<"in", "premium", "economy", "class">>
                    ELSE <<"in", b.flight_class, "class">>
             typ == IF b.flight_type = "return" THEN <<"round", "trip">>
                    ELSE IF b.flight_type = "one_way" THEN <<"one", "way">>
                    ELSE <<>>
             base == route \o pax \o dep \o ret \o cls \o typ
         IN IF base = <<>> THEN user_input
            ELSE SubSeq(base, 1, Len(base) - 1) \o <<with_period(base[Len(base)]), "now">>
                     \o user_input

update_booking_info_overwriting(b, e) ==
    [k \in DOMAIN b |-> IF k = "passengers" THEN e.passengers ELSE e[k]]

\* passengers are taken over; another key only when its new value is not None
update_booking_info_intelligently(b, e) ==
    [k \in DOMAIN b |->
        IF k = "passengers" THEN e.passengers
        ELSE IF e[k] # None THEN e[k] ELSE b[k]]

\* "Set default values for common fields if not specified"
with_defaults(b) ==
    [b EXCEPT !.flight_class = IF @ = None THEN "economy" ELSE @,
              !.flight_type = IF @ = None THEN "one_way" ELSE @,
              !.passengers = IF @ = NoCounts THEN default_passengers ELSE @]

MaxAnswer == 1

\* the passenger records the LLM path can give in a conversation turn
ConvAnswers == {validate_passenger_counts(a, c, 0) : a, c \in 0..MaxAnswer}

\* the extraction of the utterance alone
extract_with_context_bare(b, user_input) == travel_infos(user_input, ConvAnswers)

\* extract_with_context
extract_with_context(b, user_input) ==
    travel_infos(create_contextual_query(b, user_input), ConvAnswers)

book == <<"fly", "from", "lahore", "to", "karachi", "tomorrow">>
make_business == <<"actually", "make", "it", "business", "now">>
make_round == <<"make", "it", "a", "round", "trip">>
new_destination == <<"change", "the", "destination", "to", "multan">>
coming_back == <<"coming", "back", "on", "friday">>
with_wife == <<"travel", "to", "islamabad", "with", "my", "wife">>
one_way_please == <<"one", "way", "please">>

Utterances ==
    {book, make_business, make_round, new_destination, coming_back, with_wife,
     one_way_please}

\* no handler is running
NoTurn == [pc |-> "idle", handler |-> "none", user_input |-> <<>>,
           extracted_info |-> EmptyBooking]

\* a handler is entered with an utterance: extract_with_context returns a
\* record, or raises
EnterTurn(handler) ==
    /\ turn.pc = "idle"
    /\ \E u \in Utterances :
           \/ \E e \in extract_with_context(current_booking_info, u) :
                  turn' = [pc |-> "update", handler |-> handler, user_input |-> u,
                           extracted_info |-> e]
           \/ turn' = [pc |-> "except", handler |-> handler, user_input |-> u,
                       extracted_info |-> EmptyBooking]
    /\ UNCHANGED <<query, current_booking_info, terminal, paxVars, cityVars, infoVars, dateVars, sysVars>>

\* the rest of the try block of a handler
FinishTurn(handler) ==
    /\ turn.pc = "update"
    /\ turn.handler = handler
    /\ LET updated == update_booking_info_intelligently(current_booking_info,
                                                        turn.extracted_info)
       IN current_booking_info' =
              IF handler = "process" THEN with_defaults(updated) ELSE updated
    /\ turn' = NoTurn
    /\ UNCHANGED <<query, terminal, paxVars, cityVars, infoVars, dateVars, sysVars>>

\* process_user_input_conversationally: up to the extraction
ProcessUserInput == EnterTurn("process")

\* ... the update and the defaults
ProcessUpdate == FinishTurn("process")

\* handle_modification_request: up to the extraction
HandleModification == EnterTurn("modify")

\* ... the update
ModificationUpdate == FinishTurn("modify")

\* except Exception: the handler answers with an apology and leaves the record
TurnFails ==
    /\ turn.pc = "except"
    /\ turn' = NoTurn
    /\ UNCHANGED <<query, current_booking_info, terminal, paxVars, cityVars, infoVars, dateVars, sysVars>>

\* reset_conversation
ResetConversation ==
    /\ turn.pc = "idle"
    /\ current_booking_info' = EmptyBooking
    /\ UNCHANGED <<query, turn, terminal, paxVars, cityVars, infoVars, dateVars, sysVars>>

(***************************************************************************)
(* The terminal client (terminal_ui.py) in front of the agent.  It keeps   *)
(* its own copy of the record, taken from the current_info of the last     *)
(* response.  The server (travel_agent_server.py) keeps one agent for the  *)
(* user and calls its handlers; it does not read the current_info of a     *)
(* request.  A round trip that gets its response is one step; the flags    *)
(* awaiting_confirmation and awaiting_modification, on which the choice    *)
(* between the two events also depends, are left open.                     *)
(***************************************************************************)
NoTerminal == [pc |-> "none", current_booking_info |-> EmptyBooking]

\* the record of the agent after a handler ran on the extraction e
handled(handler, b, e) ==
    IF handler = "process" THEN with_defaults(update_booking_info_intelligently(b, e))
    ELSE update_booking_info_intelligently(b, e)

\* send_to_agent(event, {"input": user_input, ...}), the server's handler and
\* response_handler: the agent's record becomes the terminal's copy
RoundTrip(handler) ==
    /\ terminal.pc = "prompt"
    /\ turn.pc = "idle"
    /\ \E u \in Utterances :
           \/ \E e \in extract_with_context(current_booking_info, u) :
                  current_booking_info' = handled(handler, current_booking_info, e)
           \/ UNCHANGED current_booking_info
    /\ terminal' = [terminal EXCEPT !.current_booking_info = current_booking_info']
    /\ UNCHANGED <<query, turn, paxVars, cityVars, infoVars, dateVars, sysVars>>

\* run_conversation_loop before the first prompt: RESET_CONVERSATION is sent,
\* handle_reset_conversation answers without a current_info
RunConversationLoop ==
    /\ terminal.pc = "start"
    /\ current_booking_info' = EmptyBooking
    /\ terminal' = [terminal EXCEPT !.pc = "prompt"]
    /\ UNCHANGED <<query, turn, paxVars, cityVars, infoVars, dateVars, sysVars>>

\* process_conversation_turn, general conversation: USER_QUERY
UserQuery == RoundTrip("process")

\* process_conversation_turn, intent modify_details: MODIFY_REQUEST
ModifyRequest == RoundTrip("modify")

\* handle_special_commands: 'restart', 'new trip', 'start over', 'reset'; the
\* loop then continues with the next prompt and sends nothing
Restart ==
    /\ terminal.pc = "prompt"
    /\ terminal' = [terminal EXCEPT !.current_booking_info = EmptyBooking]
    /\ UNCHANGED <<query, current_booking_info, turn, paxVars, cityVars, infoVars, dateVars, sysVars>>

\* handle_special_commands: 'clear', 'clear history'
ClearHistory ==
    /\ terminal.pc = "prompt"
    /\ terminal' = [terminal EXCEPT !.current_booking_info = EmptyBooking]
    /\ UNCHANGED <<query, current_booking_info, turn, paxVars, cityVars, infoVars, dateVars, sysVars>>

\* handle_special_commands: 'quit', 'exit', 'bye', 'goodbye'
Quit ==
    /\ terminal.pc = "prompt"
    /\ terminal' = [terminal EXCEPT !.pc = "quit"]
    /\ UNCHANGED <<query, current_booking_info, turn, paxVars, cityVars, infoVars, dateVars, sysVars>>

(***************************************************************************)
(* execute_flight_search_with_conversation, reached from the terminal by   *)
(* EXECUTE_SEARCH.  Whether the LLM call of the opening message and the    *)
(* backend calls succeed are inputs.  The outcome is kept with the record  *)
(* it was computed from.                                                   *)
(***************************************************************************)
NoSearch == [status |-> None, missing |-> <<>>, sent |-> FALSE, info |-> EmptyBooking]

\* "if not self.current_booking_info.get(field): missing.append(name)"
missing_if(b, field, name) == IF b[field] = None THEN <<name>> ELSE <<>>

identify_missing_information_one_way(b) ==
    missing_if(b, "source", "departure_city")
        \o missing_if(b, "destination", "destination_city")
        \o missing_if(b, "departure_date", "departure_date")
        \o missing_if(b, "flight_class", "travel_class")
        \o missing_if(b, "flight_type", "trip_type")

identify_missing_information(b) ==
    missing_if(b, "source", "departure_city")
        \o missing_if(b, "destination", "destination_city")
        \o missing_if(b, "departure_date", "departure_date")
        \o missing_if(b, "flight_class", "travel_class")
        \o missing_if(b, "flight_type", "trip_type")
        \o (IF b.flight_type = "return" THEN missing_if(b, "return_date", "return_date")
            ELSE <<>>)

\* the results the call can return: 'incomplete' before anything is sent;
\* otherwise 'error' when generate_search_start_message raises, and
\* 'complete' or 'error' after search_flights_parallel has posted the request
execute_flight_search_with_conversation(b) ==
    LET missing == identify_missing_information(b)
    IN IF missing # <<>>
       THEN {[status |-> "incomplete", missing |-> missing, sent |-> FALSE, info |-> b]}
       ELSE {[status |-> "error", missing |-> missing, sent |-> FALSE, info |-> b],
             [status |-> "complete", missing |-> missing, sent |-> TRUE, info |-> b],
             [status |-> "error", missing |-> missing, sent |-> TRUE, info |-> b]}

\* process_conversation_turn, intent confirm_and_search: EXECUTE_SEARCH; the
\* response carries no current_info
ConfirmAndSearch ==
    /\ terminal.pc = "prompt"
    /\ turn.pc = "idle"
    /\ search' \in execute_flight_search_with_conversation(current_booking_info)
    /\ terminal' = [terminal EXCEPT !.pc = "searched"]
    /\ UNCHANGED <<query, current_booking_info, turn, paxVars, cityVars,
                   infoVars, dateVars, calls, module_state, channel,
                   active_sessions, clock>>

\* the result is printed and dropped; the loop prompts again
ShowResults ==
    /\ terminal.pc = "searched"
    /\ search' = NoSearch
    /\ terminal' = [terminal EXCEPT !.pc = "prompt"]
    /\ UNCHANGED <<query, current_booking_info, turn, paxVars, cityVars,
                   infoVars, dateVars, calls, module_state, channel,
                   active_sessions, clock>>

(***************************************************************************)
(* The extractors called from several extraction calls at once.  A call    *)
(* holds its text and what the fuzzy matchers make of that text; the       *)
(* extractors run on it in any order, each up to MaxRepeat times, between  *)
(* those of the other calls.                                               *)
(***************************************************************************)
MaxRepeat == 2

CallIds == {1, 2}

\* airline_mappings, the Pakistani airlines
airline_mappings ==
    [airblue |-> {"airblue", "air blue", "air-blue", "airblue airlines"},
     serene_air |-> {"serene air", "serene-air", "sereneair", "serene air lines",
                     "serene airlines"}]

\* the module-level gazetteers as they are after import
Gazetteers ==
    [city_to_iata |-> city_to_iata, iata_codes |-> iata_codes,
     airline_mappings |-> airline_mappings]

CallQueries == {book, make_business, coming_back}

\* the fuzzy city stage runs only when the gazetteer scan found nothing
fuzzy_city_runs(q) ==
    /\ extract_cities_multiword(q) = <<>>
    /\ \E i \in 1..Len(q) : fuzzy_city(q[i]) # None

NewCalls ==
    [query : CallQueries, fuzzyOn : BOOLEAN, fz : {None, "business"},
     cities : {<<>>}, flight_type : {<<>>}, flight_class : {<<>>}]

\* source, destination = extract_cities(query): reads query and the gazetteers
CallExtractCities(k) ==
    /\ k \in DOMAIN calls
    /\ Len(calls[k].cities) < MaxRepeat
    /\ calls' = [calls EXCEPT ![k].cities =
                    Append(@, extract_cities(calls[k].query, calls[k].fuzzyOn))]
    /\ UNCHANGED <<query, paxVars, cityVars, infoVars, convVars, dateVars,
                   module_state, search, channel, active_sessions, clock>>

\* extract_flight_type(query): reads query only
CallExtractFlightType(k) ==
    /\ k \in DOMAIN calls
    /\ Len(calls[k].flight_type) < MaxRepeat
    /\ calls' = [calls EXCEPT ![k].flight_type =
                    Append(@, extract_flight_type(calls[k].query))]
    /\ UNCHANGED <<query, paxVars, cityVars, infoVars, convVars, dateVars,
                   module_state, search, channel, active_sessions, clock>>

\* a cabin-class extractor that keeps the class it found last in a module
\* variable and answers from it
CallExtractFlightClass_cached(k) ==
    /\ k \in DOMAIN calls
    /\ Len(calls[k].flight_class) < MaxRepeat
    /\ calls' = [calls EXCEPT ![k].flight_class =
                    Append(@, IF \E j \in DOMAIN calls : calls[j].flight_class # <<>>
                              THEN LET j == CHOOSE j \in DOMAIN calls :
                                                calls[j].flight_class # <<>>
                                   IN calls[j].flight_class[1]
                              ELSE extract_flight_class(calls[k].query, calls[k].fz))]
    /\ UNCHANGED <<query, paxVars, cityVars, infoVars, convVars, dateVars,
                   module_state, search, channel, active_sessions, clock>>

\* extract_flight_class(query): its pattern tables and all_keywords are locals
CallExtractFlightClass(k) ==
    /\ k \in DOMAIN calls
    /\ Len(calls[k].flight_class) < MaxRepeat
    /\ calls' = [calls EXCEPT ![k].flight_class =
                    Append(@, extract_flight_class(calls[k].query, calls[k].fz))]
    /\ UNCHANGED <<query, paxVars, cityVars, infoVars, convVars, dateVars,
                   module_state, search, channel, active_sessions, clock>>

(***************************************************************************)
(* send_to_agent, response_handler and the server's handler over the Ably  *)
(* channel, for one user.  A request is named by its number; a response is *)
(* named by the request whose handling produced it.  Messages arrive in    *)
(* the order they were published.                                          *)
(***************************************************************************)
MaxRequests == 2

\* "max_retries = 2"
max_retries == 2

NoChannel ==
    [pc |-> "none", request |-> 0, retry_count |-> 0, response_event |-> FALSE,
     last_response |-> 0, requests |-> <<>>, responses |-> <<>>,
     applied |-> <<>>,
     returned |-> [request |-> 0, type |-> "none", response |-> 0]]

\* send_to_agent is entered: the event is cleared, the request published
SendToAgent ==
    /\ channel.pc = "idle"
    /\ channel.request < MaxRequests
    /\ channel' = [channel EXCEPT !.pc = "waiting",
                                  !.request = @ + 1,
                                  !.retry_count = 0,
                                  !.response_event = FALSE,
                                  !.requests = Append(@, channel.request + 1)]
    /\ UNCHANGED <<query, paxVars, cityVars, infoVars, convVars, dateVars,
                   calls, module_state, search, active_sessions, clock>>

\* handle_user_query: the session's agent processes the input, the result is
\* published as AGENT_RESPONSE
HandleUserQuery ==
    /\ channel.requests # <<>>
    /\ LET r == Head(channel.requests)
       IN channel' = [channel EXCEPT !.requests = Tail(@),
                                     !.applied[r] = @ + 1,
                                     !.responses = Append(@, r)]
    /\ UNCHANGED <<query, paxVars, cityVars, infoVars, convVars, dateVars,
                   calls, module_state, search, active_sessions, clock>>

\* response_handler: any AGENT_RESPONSE with the user's id is taken
ResponseHandler ==
    /\ channel.responses # <<>>
    /\ channel' = [channel EXCEPT !.responses = Tail(@),
                                  !.last_response = Head(channel.responses),
                                  !.response_event = TRUE]
    /\ UNCHANGED <<query, paxVars, cityVars, infoVars, convVars, dateVars,
                   calls, module_state, search, active_sessions, clock>>

\* wait_for(response_event.wait()) returns: "return self.last_response"
ReturnResponse ==
    /\ channel.pc = "waiting"
    /\ channel.response_event
    /\ channel' = [channel EXCEPT !.pc = "idle",
                                  !.returned = [request |-> channel.request,
                                                type |-> "response",
                                                response |-> channel.last_response]]
    /\ UNCHANGED <<query, paxVars, cityVars, infoVars, convVars, dateVars,
                   calls, module_state, search, active_sessions, clock>>

\* asyncio.TimeoutError: sleep and try again, or give up with the error reply
TimeoutError ==
    /\ channel.pc = "waiting"
    /\ ~channel.response_event
    /\ channel' = IF channel.retry_count + 1 <= max_retries
                  THEN [channel EXCEPT !.pc = "sleeping", !.retry_count = @ + 1]
                  ELSE [channel EXCEPT !.pc = "idle", !.retry_count = @ + 1,
                                       !.returned = [request |-> channel.request,
                                                     type |-> "error",
                                                     response |-> 0]]
    /\ UNCHANGED <<query, paxVars, cityVars, infoVars, convVars, dateVars,
                   calls, module_state, search, active_sessions, clock>>

\* the next round of the retry loop: the event is cleared, the same payload
\* published again
Republish ==
    /\ channel.pc = "sleeping"
    /\ channel' = [channel EXCEPT !.pc = "waiting",
                                  !.response_event = FALSE,
                                  !.requests = Append(@, channel.request)]
    /\ UNCHANGED <<query, paxVars, cityVars, infoVars, convVars, dateVars,
                   calls, module_state, search, active_sessions, clock>>

(***************************************************************************)
(* The server's sessions.  active_sessions is the set of the dictionary's  *)
(* items; a session's agent is kept as the number of inputs it has taken.  *)
(* Time is counted in seconds and passes between handlers; the cleanup     *)
(* task runs when its sleep is over, or later.                             *)
(***************************************************************************)
MaxNow == 2400
MaxTurns == 1

\* "self.SESSION_TIMEOUT = 1800"
SESSION_TIMEOUT == 1800

\* "await asyncio.sleep(300)"
CleanupPeriod == 300

UserIds == {"alice", "bob"}

EVENTS == {"user-query", "execute-search", "modify-request", "reset-conversation"}

NoClock == [now |-> 0, cleanup_wake |-> 0]

\* UserSession(user_id)
UserSession(u, t) == [user_id |-> u, last_interaction |-> t, agent |-> 0]

get_or_create_session(S, u, t) ==
    IF \E s \in S : s.user_id = u THEN S ELSE S \cup {UserSession(u, t)}

\* self.active_sessions[user_id]
session_of(S, u) == CHOOSE s \in S : s.user_id = u

inactive_sessions_at_timeout(S, t) ==
    {s \in S : t - s.last_interaction >= SESSION_TIMEOUT}

\* "if time_diff > self.SESSION_TIMEOUT: inactive_sessions.append(user_id)"
inactive_sessions(S, t) ==
    {s \in S : t - s.last_interaction > SESSION_TIMEOUT}

\* handle_user_query, handle_execute_search, handle_modify_request and
\* handle_reset_conversation up to their publish: u = None is a message
\* without user_id
HandleMessage(event, u) ==
    /\ IF u = None
       THEN UNCHANGED active_sessions
       ELSE LET S == get_or_create_session(active_sessions, u, clock.now)
                s == session_of(S, u)
            IN /\ event # "reset-conversation" => s.agent < MaxTurns
               /\ active_sessions' =
                      (S \ {s}) \cup
                          {[s EXCEPT !.last_interaction = clock.now,
                                     !.agent = IF event = "reset-conversation"
                                               THEN 0 ELSE @ + 1]}
    /\ UNCHANGED <<query, paxVars, cityVars, infoVars, convVars, dateVars,
                   calls, module_state, search, channel, clock>>

\* one round of cleanup_inactive_sessions, up to its sleep
CleanupInactiveSessions ==
    /\ clock.now >= clock.cleanup_wake
    /\ active_sessions' =
           active_sessions \ inactive_sessions(active_sessions, clock.now)
    /\ clock' = [clock EXCEPT !.cleanup_wake = clock.now + CleanupPeriod]
    /\ UNCHANGED <<query, paxVars, cityVars, infoVars, convVars, dateVars,
                   calls, module_state, search, channel>>

\* time passes
Tick ==
    /\ clock.now + CleanupPeriod <= MaxNow
    /\ clock' = [clock EXCEPT !.now = @ + CleanupPeriod]
    /\ UNCHANGED <<query, paxVars, cityVars, infoVars, convVars, dateVars,
                   calls, module_state, search, channel, active_sessions>>

\* none of these components is running
SysIdle ==
    /\ calls = <<>>
    /\ module_state = Gazetteers
    /\ search = NoSearch
    /\ channel = NoChannel
    /\ active_sessions = {}
    /\ clock = NoClock

(***************************************************************************)
(* extract_dates, step by step.  What the regular expressions capture and  *)
(* what the calendar-phrase parser makes of a captured phrase are inputs   *)
(* of the step that consumes them.  A date is kept as its year, counted    *)
(* from the current year.                                                  *)
(***************************************************************************)
MaxYearAhead == 3
MaxMatches == 1
MaxDates == 4

\* "parsed_date.year <= today.year + 2"
YearSlack == 2

\* a captured phrase: a key of special_date_map, a phrase the parser reads as a
\* date of some year, a phrase it cannot read, or a phrase with an age in it
SpecialPhrases == {[kind |-> "special", year |-> 0]}
ParsedPhrases == [kind : {"parsed"}, year : 0..MaxYearAhead]
UnparsedPhrases == {[kind |-> "unparsed", year |-> 0]}
AgePhrases == {[kind |-> "age", year |-> 0]}

\* the groups of between_pattern hold no digit, so no age
BetweenPhrases == SpecialPhrases \cup ParsedPhrases \cup UnparsedPhrases
AnyPhrases == BetweenPhrases \cup AgePhrases

MatchLists(S) == UNION {[1..n -> S] : n \in 0..MaxMatches}

\* the (label, date) a phrase appends to dates, if any; checked says whether
\* the strategy compares the parsed year with today.year + 2
read(label, ph, checked) ==
    IF ph.kind = "special" THEN <<[label |-> label, year |-> ph.year]>>
    ELSE IF ph.kind = "parsed" /\ (~checked \/ ph.year <= YearSlack)
         THEN <<[label |-> label, year |-> ph.year]>>
         ELSE <<>>

\* re.search(r'\d+.*?(year|old|month)', m)
is_age(ph) == ph.kind = "age"

\* the entries the matches of one pair pattern append
RECURSIVE read_pairs(_, _)
read_pairs(ms, checked) ==
    IF ms = <<>> THEN <<>>
    ELSE LET m == Head(ms)
         IN (IF checked /\ (is_age(m[1]) \/ is_age(m[2])) THEN <<>>
             ELSE read("departure", m[1], checked) \o read("return", m[2], checked))
            \o read_pairs(Tail(ms), checked)

\* the entries the matches of one indicator pattern append
RECURSIVE read_singles(_, _)
read_singles(label, ms) ==
    IF ms = <<>> THEN <<>>
    ELSE (IF is_age(Head(ms)) THEN <<>> ELSE read(label, Head(ms), TRUE))
         \o read_singles(label, Tail(ms))

\* next((d for l, d in dates if l == label), None): <<>> stands for None
first_labelled(ds, label) ==
    LET M == {k \in 1..Len(ds) : ds[k].label = label}
    IN IF M = {} THEN <<>> ELSE <<ds[Min(M)].year>>

DateResult(d, r) == [departure |-> d, return |-> r]
NoDates == DateResult(<<>>, <<>>)

\* "if len(dates) >= 2: return (...)", else on to the next strategy
early_return(ds, next_pc, next_pat) ==
    /\ dates' = ds
    /\ IF Len(ds) >= 2
       THEN /\ dresult' = DateResult(first_labelled(ds, "departure"),
                                     first_labelled(ds, "return"))
            /\ dpc' = "done"
            /\ dpat' = 0
       ELSE /\ dpc' = next_pc
            /\ dpat' = next_pat
            /\ UNCHANGED dresult

\* Strategy 1: Between X and Y
DatesBetween ==
    /\ dpc = "between"
    /\ \E ms \in MatchLists(BetweenPhrases \X BetweenPhrases) :
           early_return(dates \o read_pairs(ms, FALSE), "pairs", 1)
    /\ UNCHANGED <<query, dflight, paxVars, cityVars, infoVars, convVars, sysVars>>

\* the phrases a date pair pattern can capture: the first only special words
pair_phrases(k) == IF k = 1 THEN SpecialPhrases ELSE AnyPhrases

\* Strategy 2: one of the three date_pair_patterns
DatesPairs ==
    /\ dpc = "pairs"
    /\ \E ms \in MatchLists(pair_phrases(dpat) \X pair_phrases(dpat)) :
           /\ Len(dates) + 2 * Len(ms) <= MaxDates
           /\ IF dpat < 3
              THEN early_return(dates \o read_pairs(ms, TRUE), "pairs", dpat + 1)
              ELSE early_return(dates \o read_pairs(ms, TRUE), "indicators", 1)
    /\ UNCHANGED <<query, dflight, paxVars, cityVars, infoVars, convVars, sysVars>>

\* the label of the k-th indicator pattern: three for return, two for departure
indicator_label(k) == IF k <= 3 THEN "return" ELSE "departure"

\* Strategy 3 & 4: one of the five indicator patterns
DatesIndicators ==
    /\ dpc = "indicators"
    /\ \E ms \in MatchLists(AnyPhrases) :
           /\ Len(dates) + Len(ms) <= MaxDates
           /\ dates' = dates \o read_singles(indicator_label(dpat), ms)
    /\ IF dpat < 5 THEN dpc' = "indicators" /\ dpat' = dpat + 1
       ELSE dpc' = "special" /\ dpat' = 0
    /\ UNCHANGED <<query, dflight, dresult, paxVars, cityVars, infoVars, convVars, sysVars>>

\* sorted(special_date_map.keys(), key=len, reverse=True)
sorted_specials == <<"day after tomorrow", "tomorrow", "today">>

\* which special words the text holds, and with which label: a text that holds
\* "day after tomorrow" holds "tomorrow"
SpecialTexts ==
    {f \in [1..3 -> {"absent", "departure", "return"}] :
        f[1] # "absent" => f[2] # "absent"}

RECURSIVE read_specials(_, _)
read_specials(f, k) ==
    IF k > 3 THEN <<>>
    ELSE (IF f[k] = "absent" THEN <<>> ELSE <<[label |-> f[k], year |-> 0]>>)
         \o read_specials(f, k + 1)

\* Strategy 5: Generic fallback special date match
DatesSpecial ==
    /\ dpc = "special"
    /\ IF dates = <<>>
       THEN \E f \in SpecialTexts : dates' = read_specials(f, 1)
       ELSE UNCHANGED dates
    /\ dpc' = "final"
    /\ UNCHANGED <<query, dflight, dpat, dresult, paxVars, cityVars, infoVars, convVars, sysVars>>

\* cal.parse(normalized_text) with the year check; "" when nothing is returned
whole_text(ph) == read("departure", ph, TRUE)

\* Final return for return flight
DatesFinal ==
    /\ dpc = "final"
    /\ LET departure == first_labelled(dates, "departure")
           return_date == first_labelled(dates, "return")
       IN IF departure # <<>> \/ return_date # <<>>
          THEN dresult' = DateResult(departure, return_date)
          ELSE \E ph \in ParsedPhrases \cup UnparsedPhrases :
                   dresult' = DateResult(first_labelled(whole_text(ph), "departure"), <<>>)
    /\ dpc' = "done"
    /\ UNCHANGED <<query, dflight, dates, dpat, paxVars, cityVars, infoVars, convVars, sysVars>>

\* one-way: "Check special dates first"
DatesOneWaySpecial ==
    /\ dpc = "oneway"
    /\ \/ /\ dresult' = DateResult(<<0>>, <<>>)
          /\ dpc' = "done"
       \/ /\ dpc' = "relative"
          /\ UNCHANGED dresult
    /\ UNCHANGED <<query, dflight, dates, dpat, paxVars, cityVars, infoVars, convVars, sysVars>>

\* the first phrase, if any, that the parser reads as a year within the slack
first_reasonable(ms) ==
    LET M == {k \in 1..Len(ms) : read("departure", ms[k], TRUE) # <<>>}
    IN IF M = {} THEN <<>> ELSE <<ms[Min(M)].year>>

\* one-way: relative_date_patterns
DatesRelative ==
    /\ dpc = "relative"
    /\ \E ms \in MatchLists(ParsedPhrases \cup UnparsedPhrases) :
           IF first_reasonable(ms) # <<>>
           THEN dresult' = DateResult(first_reasonable(ms), <<>>) /\ dpc' = "done"
           ELSE dpc' = "whole" /\ UNCHANGED dresult
    /\ UNCHANGED <<query, dflight, dates, dpat, paxVars, cityVars, infoVars, convVars, sysVars>>

\* one-way: cal.parse(normalized_text), or None
DatesWhole ==
    /\ dpc = "whole"
    /\ \E ph \in ParsedPhrases \cup UnparsedPhrases :
           dresult' = DateResult(first_labelled(whole_text(ph), "departure"), <<>>)
    /\ dpc' = "done"
    /\ UNCHANGED <<query, dflight, dates, dpat, paxVars, cityVars, infoVars, convVars, sysVars>>

(***************************************************************************)
(* Each specification exercises one component; the others stay idle.     *)
(***************************************************************************)
CityIdle ==
    /\ fuzzyOn = FALSE
    /\ cpc = "idle"
    /\ found = <<>>
    /\ source = None
    /\ destination = None

PaxIdle ==
    /\ ppc = "idle"
    /\ counts = NoCounts
    /\ presult = NoResult
    /\ ppath = "none"
    /\ requests = 0

InfoIdle ==
    /\ ipc = "idle"
    /\ info = NoInfo

ConvIdle ==
    /\ current_booking_info = EmptyBooking
    /\ turn = NoTurn
    /\ terminal = NoTerminal

DateIdle ==
    /\ dpc = "idle"
    /\ dpat = 0
    /\ dflight = None
    /\ dates = <<>>
    /\ dresult = NoDates

(***************************************************************************)
(* Utterances about passengers: up to MaxPhrases phrases in a row.         *)
(***************************************************************************)
MaxPhrases == 2

PaxNums == {"1", "2"}
PaxAges == {"2", "10", "20"}

PaxPhrases ==
    {<<"with", "my", "wife">>, <<"with", "husband">>, <<"one">>,
     <<"few", "people">>, <<"and">>}
        \cup {<<n, w>> : n \in PaxNums, w \in {"adults", "people", "kids", "infants"}}
        \cup {<<"family", "of", n>> : n \in PaxNums \cup {"5"}}
        \cup {<<n, a, "year", "old">> : n \in PaxNums, a \in PaxAges}
        \cup {<<n, "months", "old">> : n \in PaxNums}

PhraseSeqs(P, n) == UNION {[1..k -> P] : k \in 0..n}

PaxQueries == {Concat(ps) : ps \in PhraseSeqs(PaxPhrases, MaxPhrases)}

PaxInit ==
    /\ query \in PaxQueries
    /\ ppc = "client"
    /\ counts = NoCounts
    /\ presult = NoResult
    /\ ppath = "none"
    /\ requests = 0
    /\ CityIdle
    /\ InfoIdle
    /\ ConvIdle
    /\ DateIdle
    /\ SysIdle

PaxNext == CreateClient \/ Complete \/ ParseReply \/ Fallback \/ Validate

SpecPax == PaxInit /\ [][PaxNext]_vars

(***************************************************************************)
(* Utterances about places: every token sequence up to MaxCityLen.         *)
(***************************************************************************)
MaxCityLen == 4

CityVocab == {"from", "leaving", "to", "towards", "lahore", "karachi", "islamabad",
              "rawalpindi", "khi", "lahores", "lahor", "today"}

TokSeqs(V, n) == UNION {[1..k -> V] : k \in 0..n}

CityInit ==
    /\ query \in TokSeqs(CityVocab, MaxCityLen)
    /\ fuzzyOn \in BOOLEAN
    /\ (fuzzyOn => extract_cities_multiword(query) = <<>>
                   /\ \E i \in 1..Len(query) : fuzzy_city(query[i]) # None)
    /\ cpc = "start"
    /\ found = <<>>
    /\ source = None
    /\ destination = None
    /\ PaxIdle
    /\ InfoIdle
    /\ ConvIdle
    /\ DateIdle
    /\ SysIdle

CityNext == ExtractCities \/ AssembleLocations

SpecCities == CityInit /\ [][CityNext]_vars

(***************************************************************************)
(* extract_travel_info on the utterances of a conversation, bare and after *)
(* the context of a sample record.                                         *)
(***************************************************************************)
SampleBooking ==
    [source |-> "LHE", destination |-> "KHI", flight_type |-> "one_way",
     flight_class |-> "economy", departure_date |-> "2026-12-01",
     return_date |-> None, passengers |-> Counts(1, 0, 0)]

InfoQueries ==
    Utterances \cup {create_contextual_query(SampleBooking, u) : u \in Utterances}

InfoInit ==
    /\ query \in InfoQueries
    /\ fuzzyOn = FALSE
    /\ cpc = "start"
    /\ found = <<>>
    /\ source = None
    /\ destination = None
    /\ PaxIdle
    /\ ipc = "type"
    /\ info = NoInfo
    /\ ConvIdle
    /\ DateIdle
    /\ SysIdle

InfoNext ==
    \/ ExtractCities \/ AssembleLocations \/ InfoFlightType \/ InfoFlightClass
    \/ InfoDates \/ CreateClient \/ Complete \/ ParseReply \/ Fallback \/ Validate
    \/ InfoPassengers

SpecInfo == InfoInit /\ [][InfoNext]_vars

(***************************************************************************)
(* extract_travel_info on short utterances about the direction of travel.  *)
(***************************************************************************)
MaxTypeLen == 3

TypeVocab == {"round", "trip", "returning", "back", "to", "lahore", "go", "then"}

round_trip_and_back ==
    <<"round", "trip", "from", "lahore", "to", "karachi", "and", "back", "to",
      "lahore">>

TypeQueries == PhraseSeqs(TypeVocab, MaxTypeLen) \cup {round_trip_and_back}

TypeInit ==
    /\ query \in TypeQueries
    /\ fuzzyOn = FALSE
    /\ cpc = "start"
    /\ found = <<>>
    /\ source = None
    /\ destination = None
    /\ PaxIdle
    /\ ipc = "type"
    /\ info = NoInfo
    /\ ConvIdle
    /\ DateIdle
    /\ SysIdle

SpecType == TypeInit /\ [][InfoNext]_vars

(***************************************************************************)
(* A conversation: any sequence of turns and resets.                       *)
(***************************************************************************)
ConvInit ==
    /\ query = <<>>
    /\ PaxIdle
    /\ CityIdle
    /\ InfoIdle
    /\ ConvIdle
    /\ DateIdle
    /\ SysIdle

ConvNext ==
    \/ ProcessUserInput \/ ProcessUpdate \/ HandleModification \/ ModificationUpdate
    \/ TurnFails \/ ResetConversation

SpecConv == ConvInit /\ [][ConvNext]_vars

(***************************************************************************)
(* A session of the terminal client with the server's agent for its user.  *)
(***************************************************************************)
TermInit ==
    /\ query = <<>>
    /\ PaxIdle
    /\ CityIdle
    /\ InfoIdle
    /\ DateIdle
    /\ SysIdle
    /\ current_booking_info = EmptyBooking
    /\ turn = NoTurn
    /\ terminal = [pc |-> "start", current_booking_info |-> EmptyBooking]

TermNext ==
    \/ RunConversationLoop \/ UserQuery \/ ModifyRequest \/ ConfirmAndSearch
    \/ ShowResults \/ Restart \/ ClearHistory \/ Quit

SpecTerm == TermInit /\ [][TermNext]_vars

(***************************************************************************)
(* extract_dates on either path.                                           *)
(***************************************************************************)
DatesInit ==
    /\ query = <<>>
    /\ PaxIdle
    /\ CityIdle
    /\ InfoIdle
    /\ ConvIdle
    /\ SysIdle
    /\ dflight \in {"one_way", "return"}
    /\ dpc = IF dflight = "return" THEN "between" ELSE "oneway"
    /\ dpat = 0
    /\ dates = <<>>
    /\ dresult = NoDates

DatesNext ==
    \/ DatesBetween \/ DatesPairs \/ DatesIndicators \/ DatesSpecial \/ DatesFinal
    \/ DatesOneWaySpecial \/ DatesRelative \/ DatesWhole

SpecDates == DatesInit /\ [][DatesNext]_vars

(***************************************************************************)
(* Concurrent extraction calls.                                            *)
(***************************************************************************)
AllIdle ==
    /\ query = <<>>
    /\ PaxIdle
    /\ CityIdle
    /\ InfoIdle
    /\ ConvIdle
    /\ DateIdle

CallsInit ==
    /\ AllIdle
    /\ calls \in [CallIds -> NewCalls]
    /\ \A k \in CallIds : calls[k].fuzzyOn => fuzzy_city_runs(calls[k].query)
    /\ \A j, k \in CallIds :
           calls[j].query = calls[k].query =>
               calls[j].fuzzyOn = calls[k].fuzzyOn /\ calls[j].fz = calls[k].fz
    /\ module_state = Gazetteers
    /\ search = NoSearch
    /\ channel = NoChannel
    /\ active_sessions = {}
    /\ clock = NoClock

CallsNext ==
    \E k \in CallIds :
        \/ CallExtractCities(k)
        \/ CallExtractFlightType(k)
        \/ CallExtractFlightClass(k)

SpecCalls == CallsInit /\ [][CallsNext]_vars

(***************************************************************************)
(* The terminal and the server over the channel.                           *)
(***************************************************************************)
ChanInit ==
    /\ AllIdle
    /\ calls = <<>>
    /\ module_state = Gazetteers
    /\ search = NoSearch
    /\ channel = [NoChannel EXCEPT !.pc = "idle",
                                   !.applied = [r \in 1..MaxRequests |-> 0]]
    /\ active_sessions = {}
    /\ clock = NoClock

ChanNext ==
    \/ SendToAgent \/ HandleUserQuery \/ ResponseHandler
    \/ ReturnResponse \/ TimeoutError \/ Republish

SpecChan == ChanInit /\ [][ChanNext]_vars

(***************************************************************************)
(* The server's sessions, its message handlers and its cleanup task.       *)
(***************************************************************************)
SessInit ==
    /\ AllIdle
    /\ SysIdle

SessNext ==
    \/ \E event \in EVENTS, u \in UserIds \cup {None} : HandleMessage(event, u)
    \/ CleanupInactiveSessions
    \/ Tick

SpecSessions == SessInit /\ [][SessNext]_vars

(***************************************************************************)
(* extract_flight_class on every utterance of up to MaxClassLen words      *)
(* about the cabin.                                                        *)
(***************************************************************************)
MaxClassLen == 3

ClassVocab ==
    {"premium", "economy", "plus", "business", "class", "professional",
     "expensive", "meeting", "flight", "book", "f", "bussiness", "lahore"}

ClassInit ==
    /\ AllIdle
    /\ \E q \in TokSeqs(ClassVocab, MaxClassLen), fz \in {None, "business"} :
           calls = <<[query |-> q, fuzzyOn |-> FALSE, fz |-> fz, cities |-> <<>>,
                      flight_type |-> <<>>, flight_class |-> <<>>]>>
    /\ module_state = Gazetteers
    /\ search = NoSearch
    /\ channel = NoChannel
    /\ active_sessions = {}
    /\ clock = NoClock

ClassNext == CallExtractFlightClass(1)

SpecClass == ClassInit /\ [][ClassNext]_vars

(***************************************************************************)
(* Claims about extract_passenger_count (checked under SpecPax).           *)
(***************************************************************************)

\* C1: for every utterance and every outcome of the LLM strategy,
\* extract_passenger_count returns normally (never raises) a record of
\* non-negative integers with adults >= 1.
C1_AlwaysReturnsValidRecord ==
    /\ ppc # "raised"
    /\ ppc = "done" =>
          /\ presult.status = "ok"
          /\ presult.adults >= 1
          /\ presult.children >= 0
          /\ presult.infants >= 0

\* C2: whenever the LLM strategy fails (no client, the call raises, the reply
\* cannot be parsed), the record returned is exactly the one
\* fallback_extraction computes for the same utterance.
C2_FailureGivesFallbackRecord ==
    (ppc = "done" /\ ppath # "llm") =>
        presult = Returned(fallback_extraction(query))

dependants_only(q) ==
    /\ \A i \in 1..Len(q) : q[i] \in NumToks \cup {"kids", "infants", "and"}
    /\ \A w \in {"kids", "infants"} : Cardinality({i \in 1..Len(q) : q[i] = w}) <= 1

\* the number the utterance states for a role word (0 when it has none)
stated(q, w) ==
    LET S == {i \in 2..Len(q) : q[i] = w /\ q[i - 1] \in NumToks}
    IN IF S = {} THEN 0 ELSE int(q[(CHOOSE i \in S : TRUE) - 1])

found_dependants_only ==
    /\ ppc = "done"
    /\ ppath \in {"llm", "fallback"}
    /\ dependants_only(query)
    /\ counts = Counts(0, stated(query, "kids"), stated(query, "infants"))
    /\ counts.children + counts.infants > 0

fallback_ran == ppc = "raised" \/ (ppc = "done" /\ ppath = "fallback")

\* "with my wife", alone or followed by a number of kids
spouse_query(q) ==
    \/ q = <<"with", "my", "wife">>
    \/ \E n \in PaxNums : q = <<"with", "my", "wife", n, "kids">>

\* C15: a spouse mention counts the speaker and one more adult, also when the
\* LLM strategy failed and the fallback gave the answer: "with my wife" gives
\* 2 adults, and the stated children besides.
C15_SpouseCountsTwoAdults ==
    (fallback_ran /\ spouse_query(query)) =>
        presult = Returned(Counts(2, stated(query, "kids"), 0))

\* the utterance has one "family of N" and no adult, people, spouse or age words
family_only(q) ==
    /\ Cardinality({i \in 1..Len(q) : q[i] = "family"}) = 1
    /\ \A i \in 1..Len(q) :
           q[i] \notin AdultWords \cup PeopleWords \cup SpouseWords \cup YearWords

\* the N of "family of N"
family_size(q) == int(q[(CHOOSE i \in 1..Len(q) : q[i] = "family") + 2])

C17_FewPeopleIsThree ==
    (ppc = "done" /\ ppath = "fallback" /\ query = <<"few", "people">>) =>
        presult.adults = 3

\* the utterance is made of "N A year old" groups only
age_groups_only(q) ==
    /\ q # <<>>
    /\ Len(q) % 4 = 0
    /\ \A k \in 0..((Len(q) \div 4) - 1) : MatchAt(q, 4 * k + 1, AgePattern)

\* C18: on the fallback path every group "N A year old" adds N passengers to
\* the band of the age A and to no other band, once.
C18_AgeGroupCountedOnce ==
    (ppc = "done" /\ ppath = "fallback" /\ age_groups_only(query)) =>
        presult = Returned(validate_passenger_counts(age_sum(query, 1, "adults"),
                                                     age_sum(query, 1, "children"),
                                                     age_sum(query, 1, "infants")))

\* C19: one call of extract_passenger_count issues at most one completion
\* request; after a failed or malformed reply the fallback runs.
C19_AtMostOneRequest ==
    /\ requests <= 1
    /\ ppc = "fallback" => requests = 1

\* the request failed and the fallback answered, one request made
C19_Witness ==
    /\ ppc = "done"
    /\ ppath = "fallback"
    /\ requests = 1

(***************************************************************************)
(* Claims about extract_cities (checked under SpecCities).                 *)
(***************************************************************************)
\* positions of the tokens that are a gazetteer city name or a location code
place_positions(q) ==
    {i \in 1..Len(q) : q[i] \in city_names \/ upper_code(q[i]) \in iata_codes}

\* no token merely contains a city name, and none is a location code
only_city_words(q) ==
    \A i \in 1..Len(q) : /\ city_in(q[i]) \in city_names => q[i] \in city_names
                         /\ upper_code(q[i]) \notin iata_codes

no_cue_word(q) ==
    \A i \in 1..Len(q) : q[i] \notin from_indicators \cup to_indicators

cities_named(q) == {q[i] : i \in {j \in 1..Len(q) : q[j] \in city_names}}

\* the k-th distinct city name in text order (k = 1, 2)
first_city(q) == q[Min({i \in 1..Len(q) : q[i] \in city_names})]
second_city(q) ==
    q[Min({i \in 1..Len(q) : q[i] \in city_names /\ q[i] # first_city(q)})]

\* C6: the pair returned by extract_cities, and the source/destination of the
\* record of extract_travel_info, never has source and destination both
\* non-null and equal.
C6_SourceDiffersFromDestination ==
    cpc \in {"cities", "info"} =>
        ~(source # None /\ destination # None /\ source = destination)

\* the cue words gave both slots the same city and two cities were found
C6_Witness ==
    /\ cpc = "cities"
    /\ cue_assign(found, query).source # None
    /\ cue_assign(found, query).source = cue_assign(found, query).destination
    /\ source # None
    /\ destination # None

\* C7: with exactly one recognized city and the word "to" before it,
\* extract_cities returns that city as destination and no source, whatever
\* other words (source cue words included) occur.
C7_ToCityIsDestination ==
    (/\ cpc = "cities"
     /\ Len(found) = 1
     /\ place_positions(query) = {found[1].pos}
     /\ \E j \in 1..(found[1].pos - 1) : query[j] = "to")
    => /\ destination = found[1].code
       /\ source = None

full_economy_record(b) ==
    /\ b.flight_class = "economy"
    /\ b.source # None
    /\ b.destination # None
    /\ b.departure_date # None
    /\ b.passengers # NoCounts

\* C4: when the accumulated record has flight_class = economy and source,
\* destination, departure date and passengers filled, the turn "actually make
\* it business now" leaves a record with flight_class = business whose source,
\* destination, departure_date, return_date and passengers are what they were
\* before the turn.
C4_BusinessTurnChangesOnlyClass ==
    [][(/\ turn.pc = "update"
        /\ turn.user_input = make_business
        /\ full_economy_record(current_booking_info))
       => /\ current_booking_info'.flight_class = "business"
          /\ \A k \in {"source", "destination", "departure_date", "return_date",
                       "passengers"} :
                 current_booking_info'[k] = current_booking_info[k]]_vars

KeptSlots == {"source", "destination", "departure_date", "return_date"}

\* C5: in every step of process_user_input_conversationally and of
\* handle_modification_request (every step but reset_conversation), a source,
\* destination, departure_date or return_date that holds a value keeps holding
\* one, whatever was extracted and also when the extraction raised.
C5_SlotsNeverGoBackToNull ==
    [][ResetConversation
       \/ \A k \in KeptSlots :
              current_booking_info[k] # None => current_booking_info'[k] # None]_vars

\* a handler is about to update a record that holds a slot for which its
\* extraction gave null
C5_Witness ==
    /\ turn.pc = "update"
    /\ \E k \in KeptSlots : /\ current_booking_info[k] # None
                            /\ turn.extracted_info[k] = None

(***************************************************************************)
(* Claims about extract_travel_info (checked under SpecInfo).              *)
(***************************************************************************)
\* C9: every record extract_travel_info returns has flight_type one_way or
\* return, flight_class one of the four classes, and passengers with
\* adults >= 1, also when extract_passenger_count raised.
C9_TypeClassPassengersAlwaysSet ==
    ipc = "done" =>
        /\ info.flight_type \in {"one_way", "return"}
        /\ info.flight_class \in FlightClasses
        /\ info.passengers # NoCounts
        /\ info.passengers.adults >= 1

\* a record was returned after the passenger extractor raised
C9_Witness ==
    /\ ipc = "done"
    /\ ppc = "raised"

(***************************************************************************)
(* Claims about extract_flight_type (checked under SpecType).              *)
(***************************************************************************)
\* some stage of the cascade matches the utterance
some_stage_matches(q) ==
    \/ \E k \in strong_return_keywords : HasKw(q, k)
    \/ return_patterns(q)
    \/ between_pattern(q)
    \/ \E k \in strong_temporal_indicators : HasKw(q, k)
    \/ date_range_patterns(q)
    \/ city_repeated(q)
    \/ cities_connected(q)
    \/ final_return_checks(q)

\* the utterance holds one of the explicit keywords
explicit_keyword(q) ==
    \E k \in {<<"return">>, <<"round", "trip">>, <<"two", "way">>, <<"both", "ways">>} :
        HasKw(q, k)

\* C20: extract_flight_type gives return exactly when a stage of its cascade
\* matches and one_way otherwise; an utterance with an explicit keyword
\* (return, round trip, two way, both ways) gives return.
C20_ReturnIffAStageMatches ==
    ipc \notin {"idle", "type"} =>
        /\ info.flight_type \in {"one_way", "return"}
        /\ info.flight_type = "return" <=> some_stage_matches(query)
        /\ explicit_keyword(query) => info.flight_type = "return"

\* the type of "round trip from lahore to karachi and back to lahore" is return
C20_Witness ==
    /\ ipc = "done"
    /\ query = round_trip_and_back
    /\ info.flight_type = "return"

(***************************************************************************)
(* Claims about extract_dates (checked under SpecDates).                   *)
(***************************************************************************)
reasonable(slot) == slot = <<>> \/ slot[1] <= YearSlack

\* C10: on the one-way and on the return path, whatever strategy produced it,
\* no returned date has a year beyond the current year + 2.
C10_NoFarFutureDateReturned ==
    dpc = "done" => reasonable(dresult.departure) /\ reasonable(dresult.return)

(***************************************************************************)
(* Further claims about the accumulated record (checked under SpecConv).   *)
(***************************************************************************)
\* C12: in the record extract_travel_info returns for a turn, and in the
\* accumulated record after any sequence of turns, return_date is set only if
\* flight_type is return.
C12_ReturnDateOnlyOnReturn ==
    /\ current_booking_info.return_date # None
           => current_booking_info.flight_type = "return"
    /\ turn.pc = "update" /\ turn.extracted_info.return_date # None
           => turn.extracted_info.flight_type = "return"

\* a one-way request arrives when a return date is on record, and its
\* extraction carries no return date
C12_Witness ==
    /\ current_booking_info.return_date # None
    /\ turn.pc = "update"
    /\ turn.user_input = one_way_please
    /\ turn.extracted_info.return_date = None

(***************************************************************************)
(* Claims about the terminal client (checked under SpecTerm).              *)
(***************************************************************************)
\* C11: after the restart command the accumulated record is empty, so that no
\* slot filled before the restart is in the record used for the next turn.
C11_RestartEmptiesRecord ==
    [][Restart => current_booking_info' = EmptyBooking]_vars

(***************************************************************************)
(* Claims about concurrent extraction calls (checked under SpecCalls).     *)
(***************************************************************************)

C22_NewInformationWins ==
    [][/\ (/\ turn.pc = "update"
           /\ turn.user_input = new_destination
           /\ current_booking_info.source # None
           /\ current_booking_info.destination # None)
          => current_booking_info'.destination = "MUX"
       /\ (/\ turn.pc = "update"
           /\ turn.user_input = make_business
           /\ current_booking_info.flight_class # None)
          => current_booking_info'.flight_class = "business"]_vars

(***************************************************************************)
(* Claims about directional cues (checked under SpecCities).               *)
(***************************************************************************)
source_cues == {"from", "leaving", "departing"}
destination_cues == {"to", "towards", "arriving"}

\* C23: when a source cue word is followed by a recognized city, extract_cities
\* returns as source the first recognized city after the cue, and when a
\* destination cue word is followed by a recognized city it returns as
\* destination the first recognized city after the cue; fill-in and tie-break
\* leave both as the cue loop set them.
C23_CueAssignedCitiesStay ==
    cpc = "cities" =>
        /\ first_after(found, query, source_cues) # None
               => source = first_after(found, query, source_cues)
        /\ first_after(found, query, destination_cues) # None
               => destination = first_after(found, query, destination_cues)

(***************************************************************************)
(* Claims about the strategies of extract_dates (checked under SpecDates). *)
(***************************************************************************)

\* C24: on the return path the between-pair and date-pair strategies return
\* early only with both a departure and a return date; with dates of one label
\* only, the later strategies are tried.
C24_EarlyReturnHasBothDates ==
    [][(dpc \in {"between", "pairs"} /\ dpc' = "done")
       => (dresult'.departure # <<>> /\ dresult'.return # <<>>)]_vars

(***************************************************************************)
(* Claims about extract_flight_class (checked under SpecClass).            *)
(***************************************************************************)

\* the stages in the order of the cascade, each with the class it gives or None
stage_results(q, fz) ==
    <<direct_keyword(q), context_window(q), luxury_class(q), pattern_class(q),
      fuzzy_class(q, fz), context_class(q), abbreviation_class(q)>>

\* the keywords of the dictionary that occur in the text
occurring_keywords(q) ==
    {all_keywords[k].kw : k \in {n \in 1..Len(all_keywords) : HasKw(q, all_keywords[n].kw)}}

clue_words == {"expensive", "meeting", "professional"}

\* C26: a text in which a clue word of context_clues occurs, no word of
\* flight_context occurs, and nothing else speaks of a class (no keyword, no
\* class indicator, no word for the fuzzy matcher) is economy.
C26_ClueNeedsFlightWord ==
    \A k \in DOMAIN calls : \A i \in DOMAIN calls[k].flight_class :
        LET q == calls[k].query
        IN (/\ \E j \in 1..Len(q) : q[j] \in clue_words
            /\ \A j \in 1..Len(q) : \A w \in flight_context : ~Contains(q[j], w)
            /\ \A j \in 1..Len(q) : q[j] \in clue_words \cup {"lahore"})
           => calls[k].flight_class[i] = "economy"

(***************************************************************************)
(* Claims about the flight search (checked under SpecTerm).                *)
(***************************************************************************)

\* the required fields of a record with the identifiers of the missing list
required_fields(b) ==
    {<<"source", "departure_city">>, <<"destination", "destination_city">>,
     <<"departure_date", "departure_date">>, <<"flight_class", "travel_class">>,
     <<"flight_type", "trip_type">>}
        \cup (IF b.flight_type = "return" THEN {<<"return_date", "return_date">>} ELSE {})

\* C27: execute_flight_search_with_conversation sends a request to the flight
\* backend only for a record whose source, destination, departure_date,
\* flight_class and flight_type are present, and whose return_date is present
\* when flight_type = return; for any other record it returns status
\* 'incomplete' and sends nothing.  The missing list holds exactly the
\* identifiers of the required fields that are null.
C27_SearchOnlyWhenComplete ==
    search.status # None =>
        LET b == search.info
            null == {p \in required_fields(b) : b[p[1]] = None}
        IN /\ Range(search.missing) = {p[2] : p \in null}
           /\ search.sent => null = {}
           /\ null # {} => (search.status = "incomplete" /\ ~search.sent)
           /\ search.status = "incomplete" => null # {}

\* a search was sent for a return trip, and one was refused before
C27_Witness ==
    /\ search.sent
    /\ search.status = "complete"
    /\ search.info.flight_type = "return"
    /\ search.info.return_date # None

(***************************************************************************)
(* Claims about the trip type over a conversation (checked under SpecConv). *)
(***************************************************************************)

\* C28: without a reset, a record with flight_type = return keeps
\* flight_type = return in every later step, whatever utterance the turn
\* carries, "one way please" included.
C28_ReturnTripStays ==
    [][current_booking_info.flight_type = "return"
       => (current_booking_info'.flight_type = "return" \/ ResetConversation)]_vars

\* the turn "one way please" on a round-trip record was extracted as return
C28_Witness ==
    /\ turn.pc = "update"
    /\ turn.user_input = one_way_please
    /\ current_booking_info.flight_type = "return"
    /\ turn.extracted_info.flight_type = "return"

(***************************************************************************)
(* Claims about requests and responses (checked under SpecChan).           *)
(***************************************************************************)

\* C29: the response send_to_agent returns for a request was produced by the
\* server for that request, never for an earlier one, and the server applies
\* no request to its record more than once.
C29_ResponseAnswersItsRequest ==
    /\ channel.returned.type = "response"
           => channel.returned.response = channel.returned.request
    /\ \A r \in DOMAIN channel.applied : channel.applied[r] <= 1

(***************************************************************************)
(* Claims about the server's sessions (checked under SpecSessions).        *)
(***************************************************************************)

\* the sessions of the users other than u
others(S, u) == {s \in S : s.user_id # u}

\* C30: the server holds at most one session for a user_id; a message with
\* user_id u leaves the sessions of all other users as they are, and a message
\* without user_id leaves all sessions as they are; a round of
\* cleanup_inactive_sessions removes the sessions whose last interaction is
\* more than SESSION_TIMEOUT seconds old and no other.
C30_SessionsKeptApart ==
    /\ [](\A s, t \in active_sessions : s.user_id = t.user_id => s = t)
    /\ [][\A event \in EVENTS, u \in UserIds \cup {None} :
              HandleMessage(event, u) =>
                  /\ others(active_sessions', u) = others(active_sessions, u)
                  /\ u = None => active_sessions' = active_sessions]_vars
    /\ [][CleanupInactiveSessions =>
              active_sessions' =
                  {s \in active_sessions :
                       clock.now - s.last_interaction <= SESSION_TIMEOUT}]_vars

\* a round of cleanup has just run, later than SESSION_TIMEOUT after the start,
\* with one session exactly SESSION_TIMEOUT old, which is kept, and no session
\* of the other user
C30_Witness ==
    /\ clock.cleanup_wake = clock.now + CleanupPeriod
    /\ clock.now > SESSION_TIMEOUT
    /\ \E s \in active_sessions :
           /\ s.user_id = "alice"
           /\ clock.now - s.last_interaction = SESSION_TIMEOUT
    /\ \A s \in active_sessions : s.user_id # "bob"

====
